---- MODULE Spec2Model ----
(***************************************************************************)
(* Query orchestration of the college voice agent:                         *)
(* backend/app/services/rag.py (KnowledgeRetriever, HybridRetriever,       *)
(* QueryExpander, QueryAnalytics, ResponseCache, RAGService,               *)
(* QueryPrefetcher) and backend/app/services/conversation_memory.py.       *)
(*                                                                         *)
(* Strings the code inspects (messages, keywords, cache keys) are          *)
(* sequences of one-character strings, so that lower(), strip(), the `in`  *)
(* substring test and concatenation are computed as Python computes them.  *)
(* Texts the code only passes around (answers, document bodies) are        *)
(* sequences of text pieces; the empty sequence is the empty string.       *)
(***************************************************************************)
EXTENDS Integers, Sequences, FiniteSets, TLC

(***************************************************************************)
(* Bounds of the model.                                                    *)
(***************************************************************************)
\* number of query_stream calls made in one behaviour
MaxQueries == 2
\* number of times the wall clock is advanced in one behaviour
MaxClockSteps == 1
\* the transcripts one voice socket sends
MaxTurns == 2

\* Python's None where the other values are names (session ids, file names)
None == "None"
\* Python's None where the other values are texts
NoneT == <<"None">>

(***************************************************************************)
(* String literals of rag.py.                                              *)
(***************************************************************************)
greetings ==
    << <<"h","e","l","l","o">>,
       <<"h","i">>,
       <<"h","e","y">>,
       <<"g","o","o","d"," ","m","o","r","n","i","n","g">>,
       <<"g","o","o","d"," ","a","f","t","e","r","n","o","o","n">>,
       <<"g","o","o","d"," ","e","v","e","n","i","n","g">>,
       <<"h","o","w"," ","a","r","e"," ","y","o","u">> >>
can_you_hear_me == <<"c","a","n"," ","y","o","u"," ","h","e","a","r"," ","m","e">>
branch_keywords ==
    << <<"b","r","a","n","c","h">>,
       <<"b","r","a","n","c","h","e","s">>,
       <<"a","v","a","i","l","a","b","l","e">>,
       <<"p","r","o","g","r","a","m">>,
       <<"p","r","o","g","r","a","m","s">>,
       <<"c","s","e">>,
       <<"i","t">>,
       <<"a","i","m","l">>,
       <<"e","c","e">>,
       <<"e","e">>,
       <<"m","e">>,
       <<"c","e">> >>
fee_intent_words ==
    << <<"f","e","e">>,
       <<"f","e","e","s">>,
       <<"c","o","s","t">>,
       <<"p","r","i","c","e">>,
       <<"t","u","i","t","i","o","n">>,
       <<"p","a","y","m","e","n","t">> >>
course_intent_words ==
    << <<"c","o","u","r","s","e">>,
       <<"c","o","u","r","s","e","s">>,
       <<"b","r","a","n","c","h">>,
       <<"p","r","o","g","r","a","m">>,
       <<"s","t","r","e","a","m">>,
       <<"i","n","t","a","k","e">>,
       <<"s","e","a","t">> >>
interest_words ==
    << <<"p","r","o","g","r","a","m","m","i","n","g">>,
       <<"c","o","d","i","n","g">>,
       <<"s","o","f","t","w","a","r","e">>,
       <<"e","l","e","c","t","r","o","n","i","c","s">>,
       <<"m","e","c","h","a","n","i","c","s">>,
       <<"c","i","v","i","l">>,
       <<"e","l","e","c","t","r","i","c","a","l">>,
       <<"a","i">>,
       <<"m","a","c","h","i","n","e"," ","l","e","a","r","n","i","n","g">> >>
kw_available == <<"a","v","a","i","l","a","b","l","e">>
kw_branches == <<"b","r","a","n","c","h","e","s">>
kw_hod == <<"h","o","d">>
kw_head == <<"h","e","a","d">>
kw_fee == <<"f","e","e">>
kw_cost == <<"c","o","s","t">>
kw_wbjee == <<"w","b","j","e","e">>
kw_rank == <<"r","a","n","k">>
last_write_suffix == <<":","l","a","s","t","_","w","r","i","t","e","_","t","i","m","e">>
topic_admission == <<"a","d","m","i","s","s","i","o","n">>
related_admission ==
    << <<"d","e","a","d","l","i","n","e">>,
       <<"f","e","e","s">>,
       <<"d","o","c","u","m","e","n","t","s">>,
       <<"e","l","i","g","i","b","i","l","i","t","y">> >>
topic_hostel == <<"h","o","s","t","e","l">>
related_hostel ==
    << <<"f","e","e","s">>,
       <<"f","a","c","i","l","i","t","i","e","s">>,
       <<"r","o","o","m","s">>,
       <<"m","e","s","s">> >>
topic_placement == <<"p","l","a","c","e","m","e","n","t">>
related_placement ==
    << <<"c","o","m","p","a","n","i","e","s">>,
       <<"p","a","c","k","a","g","e","s">>,
       <<"s","t","a","t","i","s","t","i","c","s">> >>
topic_branch == <<"b","r","a","n","c","h">>
related_branch ==
    << <<"c","u","t","o","f","f">>,
       <<"s","y","l","l","a","b","u","s">>,
       <<"h","o","d">>,
       <<"f","a","c","i","l","i","t","i","e","s">> >>
topic_fee == <<"f","e","e">>
related_fee ==
    << <<"p","a","y","m","e","n","t">>,
       <<"r","e","f","u","n","d">>,
       <<"s","e","m","e","s","t","e","r">>,
       <<"l","a","t","e"," ","f","e","e">> >>
topic_courses == <<"c","o","u","r","s","e","s">>
related_courses ==
    << <<"s","y","l","l","a","b","u","s">>,
       <<"c","r","e","d","i","t","s">>,
       <<"d","u","r","a","t","i","o","n">>,
       <<"f","e","e","s">> >>
msg_hi == <<"h","i">>
msg_fee == <<"f","e","e">>
msg_Fee_sp == <<"F","e","e"," ">>
msg_hod == <<"h","o","d">>
msg_branches == <<"b","r","a","n","c","h","e","s">>
msg_rank == <<"r","a","n","k"," ","7">>


(***************************************************************************)
(* Python string operations.                                               *)
(***************************************************************************)
UpperToLower ==
    [c \in {"A","B","C","D","E","F","G","H","I","J","K","L","M","N","O","P",
            "Q","R","S","T","U","V","W","X","Y","Z"} |->
       CASE c = "A" -> "a" [] c = "B" -> "b" [] c = "C" -> "c" [] c = "D" -> "d"
         [] c = "E" -> "e" [] c = "F" -> "f" [] c = "G" -> "g" [] c = "H" -> "h"
         [] c = "I" -> "i" [] c = "J" -> "j" [] c = "K" -> "k" [] c = "L" -> "l"
         [] c = "M" -> "m" [] c = "N" -> "n" [] c = "O" -> "o" [] c = "P" -> "p"
         [] c = "Q" -> "q" [] c = "R" -> "r" [] c = "S" -> "s" [] c = "T" -> "t"
         [] c = "U" -> "u" [] c = "V" -> "v" [] c = "W" -> "w" [] c = "X" -> "x"
         [] c = "Y" -> "y" [] c = "Z" -> "z"]

\* str.lower()
Lower(s) == [i \in 1..Len(s) |-> IF s[i] \in DOMAIN UpperToLower THEN UpperToLower[s[i]] ELSE s[i]]

Whitespace == {" ", "\t", "\n"}

\* str.strip()
Strip(s) ==
    LET idx == {i \in 1..Len(s) : s[i] \notin Whitespace}
    IN  IF idx = {} THEN <<>>
        ELSE LET lo == CHOOSE i \in idx : \A j \in idx : i <= j
                 hi == CHOOSE i \in idx : \A j \in idx : j <= i
             IN  SubSeq(s, lo, hi)

\* the `in` operator on strings: w in s
Contains(w, s) ==
    \E i \in 0..(Len(s) - Len(w)) : \A j \in 1..Len(w) : s[i + j] = w[j]

\* any(w in s for w in words)
ContainsAny(words, s) == \E n \in 1..Len(words) : Contains(words[n], s)

Digits == <<"0","1","2","3","4","5","6","7","8","9">>

DigitOf(c) == (CHOOSE d \in 1..10 : Digits[d] = c) - 1

RECURSIVE IntToStr(_)
\* str(n) of a non-negative whole number
IntToStr(n) == IF n < 10 THEN <<Digits[n + 1]>> ELSE IntToStr(n \div 10) \o <<Digits[(n % 10) + 1]>>

RECURSIVE StrToInt(_)
\* float(s) of the digits written by str(n)
StrToInt(s) == IF Len(s) = 0 THEN 0 ELSE 10 * StrToInt(SubSeq(s, 1, Len(s) - 1)) + DigitOf(s[Len(s)])

IsDigit(c) == \E d \in 1..10 : Digits[d] = c

\* re.search(r'(\d+)', s): the leftmost maximal run of digits, None without one
FirstDigitRun(s) ==
    LET idx == {i \in 1..Len(s) : IsDigit(s[i])}
    IN  IF idx = {} THEN NoneT
        ELSE LET lo == CHOOSE i \in idx : \A j \in idx : i <= j
                 ends == {e \in lo..Len(s) : (\A j \in lo..e : IsDigit(s[j])) /\ (e = Len(s) \/ ~IsDigit(s[e + 1]))}
                 hi == CHOOSE e \in ends : TRUE
             IN  SubSeq(s, lo, hi)

(***************************************************************************)
(* Generic helpers.                                                        *)
(***************************************************************************)
Min(a, b) == IF a <= b THEN a ELSE b

\* s[:n]
Slice(s, n) == SubSeq(s, 1, Min(n, Len(s)))

\* the sequence s without its element at position i
RemoveAt(s, i) == SubSeq(s, 1, i - 1) \o SubSeq(s, i + 1, Len(s))

\* truthiness of a str or None value
Truthy(v) == v # NoneT /\ v # <<>>

(***************************************************************************)
(* KnowledgeRetriever (rag.py 30-78).                                      *)
(* A knowledge graph is the dict read from knowledge_graph.json; the two   *)
(* keys the code reads are fees_raw (None when missing) and courses (the   *)
(* empty list when missing).                                               *)
(***************************************************************************)
EmptyData == [fees_raw |-> NoneT, courses |-> <<>>]

\* the knowledge graph the deployment ships with: a fee table and two courses
KgOnDisk ==
    [fees_raw |-> <<"BTech: 45000 per semester">>,
     courses  |-> << [name |-> "CSE", dept |-> "Computer Science", intake |-> "120"],
                     [name |-> "ECE", dept |-> "Electronics", intake |-> "60"] >>]

\* json.load of the file (extract_knowledge.py writes it before the service starts)
FileContent(file) == IF file = None THEN EmptyData ELSE KgOnDisk

\* KnowledgeRetriever._load: rag.py never imports os, so the first statement
\* of the try block, os.path.exists(path), raises NameError; the except
\* clause logs it and returns {} whether or not the file exists.
Load(file) == EmptyData

RECURSIVE CourseLines(_)
CourseLines(courses) ==
    IF courses = <<>> THEN <<>>
    ELSE <<"\n- **", Head(courses).name, "** (", Head(courses).dept, "): ",
           Head(courses).intake, " seats">> \o CourseLines(Tail(courses))

FeeAnswer(data) == <<"**Official Fee Structure:**\n">> \o data.fees_raw

CoursesAnswer(data) == <<"**Courses Offered:**">> \o CourseLines(data.courses)

\* KnowledgeRetriever.search
search(data, query) ==
    LET q == Lower(query)
    IN  IF ContainsAny(fee_intent_words, q) /\ Truthy(data.fees_raw)
        THEN FeeAnswer(data)
        ELSE IF ContainsAny(course_intent_words, q) /\ data.courses # <<>>
        THEN CoursesAnswer(data)
        ELSE NoneT

(***************************************************************************)
(* ResponseCache (rag.py 451-535).                                         *)
(* self.cache is a dict; it is a sequence of entries in insertion order,   *)
(* which is the order min() scans when it looks for the oldest entry.      *)
(***************************************************************************)
\* RAGService.__init__: ResponseCache(max_size=100, ttl_seconds=3600)
max_size == 100
ttl_seconds == 3600

\* _hash_query without the normalisation
_hash_query_Raw(query) == query

\* ResponseCache._hash_query: md5 of the lower-cased, stripped query; the
\* digest is represented by the text it is computed from
_hash_query(query) == Strip(Lower(query))

\* position of the entry stored under hash h, 0 when there is none
CachePos(c, h) ==
    IF \E i \in 1..Len(c) : c[i].key = h
    THEN CHOOSE i \in 1..Len(c) : c[i].key = h
    ELSE 0

\* get that still serves an entry whose time-to-live has just elapsed
CacheGet_Late(c, query, t) ==
    LET h == _hash_query(query)
        p == CachePos(c, h)
    IN  IF p = 0 THEN [value |-> NoneT, cache |-> c]
        ELSE IF t - c[p].timestamp <= ttl_seconds
        THEN [value |-> c[p].answer, cache |-> c]
        ELSE [value |-> NoneT, cache |-> RemoveAt(c, p)]

\* ResponseCache.get: the read value and the cache it leaves behind
CacheGet(c, query, t) ==
    LET h == _hash_query(query)
        p == CachePos(c, h)
    IN  IF p = 0 THEN [value |-> NoneT, cache |-> c]
        ELSE IF t - c[p].timestamp < ttl_seconds
        THEN [value |-> c[p].answer, cache |-> c]
        ELSE [value |-> NoneT, cache |-> RemoveAt(c, p)]

\* the first entry of greatest timestamp instead of the oldest one
OldestPos_Newest(c) ==
    CHOOSE i \in 1..Len(c) :
        /\ \A j \in 1..Len(c) : c[i].timestamp >= c[j].timestamp
        /\ \A j \in 1..(i - 1) : c[j].timestamp < c[i].timestamp

\* min(self.cache.items(), key=timestamp): the first entry of least timestamp
OldestPos(c) ==
    CHOOSE i \in 1..Len(c) :
        /\ \A j \in 1..Len(c) : c[i].timestamp <= c[j].timestamp
        /\ \A j \in 1..(i - 1) : c[j].timestamp > c[i].timestamp

\* ResponseCache.clear
CacheClear(c) == <<>>

\* set that evicts only once the cache holds more than max_size entries
CacheSet_OneMore(c, query, answer, t) ==
    LET h == _hash_query(query)
        e == [key |-> h, answer |-> answer, timestamp |-> t, query |-> query]
        kept == IF Len(c) > max_size /\ CachePos(c, h) = 0
                THEN RemoveAt(c, OldestPos(c))
                ELSE c
        p == CachePos(kept, h)
    IN  IF p = 0 THEN Append(kept, e) ELSE [kept EXCEPT ![p] = e]

\* set that refuses a new key when the cache is full
CacheSet_Refuse(c, query, answer, t) ==
    LET h == _hash_query(query)
        e == [key |-> h, answer |-> answer, timestamp |-> t, query |-> query]
        p == CachePos(c, h)
    IN  IF p # 0 THEN [c EXCEPT ![p] = e]
        ELSE IF Len(c) >= max_size THEN c
        ELSE Append(c, e)

\* ResponseCache.set
CacheSet(c, query, answer, t) ==
    LET h == _hash_query(query)
        e == [key |-> h, answer |-> answer, timestamp |-> t, query |-> query]
        kept == IF Len(c) >= max_size /\ CachePos(c, h) = 0
                THEN RemoveAt(c, OldestPos(c))
                ELSE c
        p == CachePos(kept, h)
    IN  IF p = 0 THEN Append(kept, e) ELSE [kept EXCEPT ![p] = e]

(***************************************************************************)
(* HybridRetriever.retrieve (rag.py 141-228).                              *)
(* Scores are fixed-point numbers in hundredths; hybrid_score is kept      *)
(* times ten, 4*bm25 + 60*semantic for the weights 0.4 and 0.6 and the     *)
(* factor 10 of line 194.                                                  *)
(***************************************************************************)
\* semantic_score_map: later results overwrite earlier ones with the same key
RECURSIVE SemanticScoreOf(_, _)
SemanticScoreOf(semantic_results, key) ==
    IF semantic_results = <<>> THEN 0
    ELSE LET last == semantic_results[Len(semantic_results)]
         IN  IF Slice(last.doc.text, 50) = key THEN last.score
             ELSE SemanticScoreOf(SubSeq(semantic_results, 1, Len(semantic_results) - 1), key)

FinalResults(docs, bm25_scores, semantic_results, bm25_weight, semantic_weight) ==
    [i \in 1..Len(docs) |->
        LET s_score == SemanticScoreOf(semantic_results, Slice(docs[i].text, 50))
            b_score == bm25_scores[i]
        IN  [document |-> docs[i],
             hybrid_score |-> bm25_weight * b_score + semantic_weight * s_score * 10,
             bm25_score |-> b_score,
             semantic_score |-> s_score]]

\* SortByScore by a sort that is not stable: of equal scores the later comes first
RECURSIVE SortByScore_Unstable(_)
SortByScore_Unstable(rs) ==
    IF rs = <<>> THEN <<>>
    ELSE LET top == CHOOSE i \in 1..Len(rs) :
                       /\ \A j \in 1..Len(rs) : rs[j].hybrid_score <= rs[i].hybrid_score
                       /\ \A j \in (i + 1)..Len(rs) : rs[j].hybrid_score < rs[i].hybrid_score
         IN  <<rs[top]>> \o SortByScore_Unstable(RemoveAt(rs, top))

\* list.sort(key=hybrid_score, reverse=True): stable, ties keep their order
RECURSIVE SortByScore(_)
SortByScore(rs) ==
    IF rs = <<>> THEN <<>>
    ELSE LET top == CHOOSE i \in 1..Len(rs) :
                       /\ \A j \in 1..Len(rs) : rs[j].hybrid_score <= rs[i].hybrid_score
                       /\ \A j \in 1..(i - 1) : rs[j].hybrid_score < rs[i].hybrid_score
         IN  <<rs[top]>> \o SortByScore(RemoveAt(rs, top))

CountSource(rs, src) == Cardinality({i \in 1..Len(rs) : rs[i].document.source = src})

\* Diversify with the limit tested after the increment: three chunks per source
RECURSIVE Diversify_Three(_, _, _)
Diversify_Three(rs, acc, k) ==
    IF rs = <<>> THEN acc
    ELSE IF CountSource(acc, Head(rs).document.source) <= 2
         THEN IF Len(acc) + 1 >= k THEN Append(acc, Head(rs))
              ELSE Diversify_Three(Tail(rs), Append(acc, Head(rs)), k)
         ELSE Diversify_Three(Tail(rs), acc, k)

\* the diversity loop: at most 2 chunks per source, stop at k results
RECURSIVE Diversify(_, _, _)
Diversify(rs, acc, k) ==
    IF rs = <<>> THEN acc
    ELSE IF CountSource(acc, Head(rs).document.source) < 2
         THEN IF Len(acc) + 1 >= k THEN Append(acc, Head(rs))
              ELSE Diversify(Tail(rs), Append(acc, Head(rs)), k)
         ELSE Diversify(Tail(rs), acc, k)

retrieve(bm25_index, docs, bm25_scores, semantic_results, k) ==
    IF ~bm25_index.built THEN <<>>
    ELSE Diversify(SortByScore(FinalResults(docs, bm25_scores, semantic_results, 4, 6)), <<>>, k)

(***************************************************************************)
(* The corpus and the inputs of the model.                                 *)
(***************************************************************************)
doc_fees == [text |-> <<"Tuition fee 45,000 per semester">>, source |-> "fees.txt"]
doc_library == [text |-> <<"The campus has a library">>, source |-> "fees.txt"]
doc_hod == [text |-> <<"Head of CSE: Asha Rao">>, source |-> "faculty.txt"]

\* chroma_db/documents.json as loaded by RAGService._load_documents
Corpus == <<doc_fees, doc_library, doc_hod>>

\* re.search of the HOD pattern (rag.py 767, 791) on the corpus texts: group 2
hod_search(content) ==
    IF content = doc_hod.text THEN <<"Asha Rao">> ELSE NoneT

\* re.search of the fee pattern (rag.py 775, 798) on the corpus texts: group 0
fee_search(content) ==
    IF content = doc_fees.text THEN <<"fee 45,000">> ELSE NoneT

\* what BM25Okapi.get_scores and FAISSVectorStore.search return on the corpus:
\* one bm25 score per indexed chunk and the scored nearest chunks.  Both are
\* functions of the query text; the table gives them for the queries used.
ScoresFor(query) ==
    LET q == Lower(query)
    IN  IF Contains(kw_fee, q)
        THEN [bm25_scores |-> <<100, 0, 0>>,
              semantic_results |-> << [doc |-> doc_fees, score |-> 50] >>]
        ELSE IF Contains(kw_hod, q)
        THEN [bm25_scores |-> <<0, 0, 0>>,
              semantic_results |-> << [doc |-> doc_hod, score |-> 80], [doc |-> doc_fees, score |-> 20] >>]
        ELSE [bm25_scores |-> <<0, 50, 0>>,
              semantic_results |-> << [doc |-> doc_hod, score |-> 30], [doc |-> doc_library, score |-> 30] >>]

Messages == {msg_hi, msg_fee, msg_Fee_sp, msg_hod, msg_branches}

SessionIds == {None, "s1"}

\* what the chat-completion call of answer generation can come back with:
\* message.content, of which the code takes .strip()
LLMContents == { <<"generated answer">>, <<>> }

GreetingAnswer == <<"Hello! I am the college information agent. How can I help you today?">>
TimeoutAnswer == <<"I'm experiencing delays connecting to the AI service. Please try again in a moment.">>
NoInfoAnswer == <<"I don't have enough information to answer that.">>
additional_prompt == <<"\n\nFor personalized branch recommendations, could you please share your WBJEE rank and your interests (like programming, electronics, mechanics, etc.)?">>

QueryIds == 1..MaxQueries

VARIABLES
    kg_file,          \* backend/data/knowledge_graph.json on disk, None when absent
    kg_data,          \* KnowledgeRetriever.data
    documents,        \* HybridRetriever.documents
    bm25,             \* HybridRetriever.bm25: whether it is built, and from which chunks
    query_expander,   \* RAGService.query_expander: whether it is set, and whether it has a client
    session_history,  \* QueryExpander.session_history
    system_prompt_builder, \* RAGService.system_prompt_builder: whether it is set
    cache,            \* ResponseCache.cache
    sessions,         \* ConversationMemory.sessions
    user_profiles,    \* ConversationMemory.user_profiles
    metrics,          \* QueryAnalytics.metrics['interactions']
    tasks,            \* tasks made by asyncio.create_task that have not run yet
    now,              \* time.time(), in seconds
    clock_steps,      \* how often the clock was advanced
    qs,               \* the query_stream calls: position, locals, emitted events
    r_in,             \* HybridRetriever under a corpus and a query: the index and the scores
    r_out,            \* what the calls of retrieve on r_in returned, in call order
    cache_calls,      \* the calls made on ResponseCache, with what get returned
    voice_sessions,   \* ConversationMemory.sessions of the instance of api/voice.py
    voice_profiles,   \* ConversationMemory.user_profiles of the instance of api/voice.py
    memory_file,      \* chroma_db/conversation_memory.json
    profile_file,     \* chroma_db/user_profiles.json
    audio_cache,      \* audio_cache of api/voice.py: the answer text per session and transcript
    sockets,          \* the voice sessions: "open" or "closed" per session id
    c_in,             \* DocumentProcessor under a text: the text, chunk_size and chunk_overlap
    c_out,            \* what _create_chunks returned for c_in, and for chunks of its result
    vector_store,     \* FAISSVectorStore: model, index and documents
    store_files,      \* chroma_db/faiss_index.bin and chroma_db/documents.pkl
    indexing,         \* the call of index_documents in progress, and its argument
    reader,           \* the call of retrieve in another thread, and what it has read
    uploads,          \* the names of the files in settings.upload_dir
    admin_calls,      \* the calls of the admin endpoints, with their responses
    pending_tts,      \* the text_to_speech call a voice handler is waiting for
    sent              \* the messages the voice handler has sent to its client

\* the state of the RAG service and of its query_stream calls
service_vars == <<kg_file, kg_data, documents, bm25, query_expander, session_history,
                  system_prompt_builder, cache, sessions, user_profiles, metrics, tasks,
                  now, clock_steps, qs>>

\* the retriever and the cache taken on their own
unit_vars == <<r_in, r_out, cache_calls>>

\* the voice endpoint and the files of the conversation memory
speech_vars == <<pending_tts, sent>>

voice_vars == <<voice_sessions, voice_profiles, memory_file, profile_file, audio_cache, sockets,
                speech_vars>>

\* the upload directory and the admin endpoints
admin_vars == <<uploads, admin_calls>>

\* the document processor, the vector store and the admin endpoints
doc_vars == <<c_in, c_out, vector_store, store_files, indexing, reader, admin_vars>>

vars == <<service_vars, unit_vars, voice_vars, doc_vars>>

\* a query_stream call that has not been made yet
NewQuery ==
    [pc |-> "new", message |-> <<>>, session_id |-> None, query_to_use |-> <<>>,
     retrieved_docs |-> <<>>, events |-> <<>>,
     \* history, for stating properties: the branch taken, the calls made, the
     \* queries that had been answered when this one was received, and the
     \* time of the event
     path |-> "none", ops |-> <<>>, answered_before |-> {}, answered_at |-> 0,
     \* the user profile given to build_system_prompt (rag.py 677-678)
     prompt_profile |-> <<>>]

\* the keys of the session dictionaries: a session id, or "default" for None
SessionKey(session_id) == IF session_id = None THEN "default" ELSE session_id

SessionKeys == {"default", "s1", "s2"}

\* a dict without keys
EmptyDict == [k \in {} |-> <<>>]

\* d[k] = v on a dict
DictPut(d, k, v) == [x \in DOMAIN d \cup {k} |-> IF x = k THEN v ELSE d[x]]

\* RAGService.__init__ (rag.py 555-578), ConversationMemory.__init__ with no
\* persisted files, QueryAnalytics.__init__, ResponseCache.__init__
ServiceInit ==
    /\ kg_file = "knowledge_graph.json"
    /\ kg_data = Load(kg_file)
    /\ documents \in {<<>>, Corpus}
    /\ bm25 = [built |-> documents # <<>>, corpus |-> documents]
    /\ query_expander = [set |-> FALSE, llm |-> FALSE]
    /\ session_history = [s \in SessionKeys |-> <<>>]
    /\ system_prompt_builder = [set |-> FALSE]
    /\ cache = <<>>
    /\ sessions = EmptyDict
    /\ user_profiles = EmptyDict
    /\ metrics = <<>>
    /\ tasks = <<>>
    /\ now = 0
    /\ clock_steps = 0
    /\ qs = [i \in QueryIds |-> NewQuery]

\* no call of retrieve under examination
NoInput == [built |-> FALSE]

\* the retriever and the cache have not been called on their own
UnitIdle ==
    /\ r_in = NoInput
    /\ r_out = <<>>
    /\ cache_calls = <<>>

\* api/voice.py on import: ConversationMemory() with no persisted files, no socket
VoiceIdle ==
    /\ voice_sessions = EmptyDict
    /\ voice_profiles = EmptyDict
    /\ memory_file = EmptyDict
    /\ profile_file = EmptyDict
    /\ audio_cache = EmptyDict
    /\ sockets = EmptyDict
    /\ pending_tts = [pc |-> "idle"]
    /\ sent = <<>>

\* self.model = None, self.index = None, and a file that does not exist
NoModel == 0
NoIndex == [kind |-> "none"]
NoFile == [kind |-> "none"]

\* nothing uploaded, no admin endpoint called
AdminIdle ==
    /\ uploads = {}
    /\ admin_calls = <<>>

\* a vector store without FAISS (vector_store.py 50-53), no file in
\* chroma_db, no call of _create_chunks, index_documents or retrieve under way
DocIdle ==
    /\ c_in = NoInput
    /\ c_out = <<>>
    /\ vector_store = [model |-> NoModel, index |-> NoIndex, documents |-> <<>>]
    /\ store_files = [index_file |-> NoFile, docs_file |-> NoFile]
    /\ indexing = [pc |-> "idle"]
    /\ reader = [pc |-> "idle"]

Init == ServiceInit /\ UnitIdle /\ VoiceIdle /\ DocIdle /\ AdminIdle


(***************************************************************************)
(* QueryExpander (rag.py 237-317).                                         *)
(***************************************************************************)
\* len(query.split()): the number of maximal runs of non-whitespace
WordCount(s) ==
    Cardinality({i \in 1..Len(s) : s[i] \notin Whitespace /\ (i = 1 \/ s[i - 1] \in Whitespace)})

_should_expand(query, history) == WordCount(query) < 4 /\ Len(history) > 0

\* what the expansion call of the external model can come back with:
\* the stripped content, or NoneT for a raised exception
ExpansionOutcomes == {NoneT, msg_fee}

\* QueryExpander.expand_query: (expanded_query, was_expanded)
expand_query(query, session_key, outcome) ==
    IF ~_should_expand(query, session_history[session_key])
    THEN [query |-> query, was_expanded |-> FALSE, called |-> FALSE]
    ELSE IF outcome = NoneT
    THEN [query |-> query, was_expanded |-> FALSE, called |-> TRUE]
    ELSE [query |-> outcome, was_expanded |-> TRUE, called |-> TRUE]

(***************************************************************************)
(* RAGService.query_stream (rag.py 601-848).                               *)
(***************************************************************************)
AnswerEvent(answer, docs, query_used) ==
    [type |-> "answer", answer |-> answer, documents |-> docs, query_used |-> query_used]

ErrorEvent(message) ==
    [type |-> "error", answer |-> message, documents |-> <<>>, query_used |-> <<>>]

\* lines 609-611: the greeting test
IsGreeting(message) ==
    LET normalized_message == Strip(Lower(message))
    IN  ContainsAny(greetings, normalized_message) \/ Contains(can_you_hear_me, normalized_message)

\* line 624
is_branch_query(message) == ContainsAny(branch_keywords, Lower(message))

\* ConversationMemory.get_user_profile
get_user_profile(session_key) ==
    IF session_key \in DOMAIN user_profiles THEN user_profiles[session_key] ELSE EmptyDict

\* dict.get(key, default)
DictGet(d, k, default) == IF k \in DOMAIN d THEN d[k] ELSE default

\* ConversationMemory.update_user_profile on a profile table
update_user_profile(profiles, session_id, key, value) ==
    DictPut(profiles, session_id,
            DictPut(IF session_id \in DOMAIN profiles THEN profiles[session_id] ELSE EmptyDict, key, value))

\* ConversationMemory.add_interaction on a session table (the timestamp of
\* an interaction, which nothing reads, is left out)
add_interaction(table, session_id, user_message, bot_response) ==
    DictPut(table, session_id,
            Append(IF session_id \in DOMAIN table THEN table[session_id] ELSE <<>>,
                   [user_message |-> user_message, bot_response |-> bot_response]))

\* QueryAnalytics.log_interaction on the interaction list (without the
\* wall-clock fields timestamp and latency_ms)
log_interaction(log, session_key, query, retrieved_docs, response) ==
    Append(log, [session_id |-> session_key, query |-> query,
                 retrieval_score |-> IF retrieved_docs # <<>> THEN retrieved_docs[1].hybrid_score ELSE 0,
                 response_length |-> Len(response)])

\* lines 760-781 and 786-804: the answer built from the top document
FallbackAnswer(retrieved_docs, query_to_use) ==
    LET content == retrieved_docs[1].document.text
        q == Lower(query_to_use)
        raw == <<"Based on the available information: ">> \o Slice(content, 500)
    IN  IF Contains(kw_hod, q) \/ Contains(kw_head, q)
        THEN IF hod_search(content) # NoneT
             THEN <<"The HOD is ">> \o hod_search(content)
             ELSE raw
        ELSE IF Contains(kw_fee, q) \/ Contains(kw_cost, q)
        THEN IF fee_search(content) # NoneT
             THEN <<"The fee information is: ">> \o Slice(fee_search(content), 100)
             ELSE raw
        ELSE raw

\* F of the value of e, which is computed once however often F reads it
With(F(_), e) == CHOOSE r \in {F(v) : v \in {e}} : TRUE

\* lines 808-841: log the interaction, update the conversation memory and
\* yield the answer.  st carries the cache and the query record so far.
Respond(st, answer, path) ==
    LET q == st.q
        sid == q.session_id
        msg == q.message
        low == Lower(msg)
        rank_match == FirstDigitRun(msg)
        p1 == IF (Contains(kw_wbjee, low) \/ Contains(kw_rank, low)) /\ rank_match # NoneT
              THEN update_user_profile(user_profiles, sid, "wbjee_rank", rank_match)
              ELSE user_profiles
        p2 == IF ContainsAny(interest_words, low)
              THEN update_user_profile(p1, sid, "interests", msg)
              ELSE p1
    IN  [cache |-> st.cache,
         metrics |-> log_interaction(metrics, SessionKey(sid), msg, q.retrieved_docs, answer),
         user_profiles |-> IF sid # None THEN p2 ELSE user_profiles,
         sessions |-> IF sid # None THEN add_interaction(sessions, sid, msg, answer) ELSE sessions,
         tasks |-> st.tasks,
         q |-> [q EXCEPT !.pc = "yielded",
                         !.path = path,
                         !.answered_at = now,
                         !.events = Append(@, AnswerEvent(answer, q.retrieved_docs, q.query_to_use)),
                         !.ops = @ \o (IF sid # None THEN <<"log_interaction", "add_interaction">>
                                       ELSE <<"log_interaction">>)]]

\* a step of query_stream that touches nothing but the query and the tasks
Only(st) ==
    [cache |-> st.cache, metrics |-> metrics, user_profiles |-> user_profiles,
     sessions |-> sessions, tasks |-> st.tasks, q |-> st.q]

\* Fail without the yield: the exception is logged and the stream just ends
Fail_Silent(st, message) ==
    Only([st EXCEPT !.q.pc = "yielded", !.q.path = "exception", !.q.answered_at = now])

\* lines 843-848: the handler of the outer try
Fail(st, message) ==
    Only([st EXCEPT !.q.pc = "yielded", !.q.path = "exception", !.q.answered_at = now,
                    !.q.events = Append(@, ErrorEvent(message))])

\* AfterGeneration without the suppression window: every answer is written
AfterGeneration_AlwaysWrites(st, generated, path) ==
    LET q == st.q
        cache_key == q.query_to_use
        last_write_key == cache_key \o last_write_suffix
        Finish(c) ==
            Respond([st EXCEPT !.cache = c,
                               !.q.ops = @ \o <<"cache_get", "cache_set", "cache_set">>],
                    generated, path)
    IN  With(Finish,
             With(LAMBDA c : CacheSet(c, last_write_key, IntToStr(now), now),
                  CacheSet(st.cache, cache_key, generated, now)))

\* lines 729-753: the cache write with its suppression window, and the
\* request for rank and interests appended to a branch answer
AfterGeneration(st, generated, path) ==
    LET q == st.q
        cache_key == q.query_to_use
        last_write_key == cache_key \o last_write_suffix
        current_time == now
        user_profile == get_user_profile(SessionKey(q.session_id))
        user_rank == DictGet(user_profile, "wbjee_rank", <<"not provided">>)
        user_interests == DictGet(user_profile, "interests", <<"not specified">>)
        low == Lower(q.query_to_use)
        asks == /\ is_branch_query(q.message)
                /\ (Contains(kw_available, low) \/ Contains(kw_branches, low))
                /\ (user_rank = <<"not provided">> \/ user_interests = <<"not specified">>)
        answer == IF asks THEN generated \o additional_prompt ELSE generated
        Write(lw) ==
            IF Truthy(lw.value) /\ current_time - StrToInt(lw.value) < 1
            THEN [suppressed |-> TRUE, cache |-> lw.cache]
            ELSE [suppressed |-> FALSE,
                  cache |-> With(LAMBDA c : CacheSet(c, last_write_key, IntToStr(current_time), now),
                                 CacheSet(lw.cache, cache_key, generated, now))]
        Finish(w) ==
            Respond([st EXCEPT !.cache = w.cache,
                               !.q.ops = @ \o (IF w.suppressed THEN <<"cache_get">>
                                               ELSE <<"cache_get", "cache_set", "cache_set">>)],
                    answer, path)
    IN  With(Finish, With(Write, CacheGet(st.cache, last_write_key, now)))

\* GenerationFailed without the inner handler: the error reaches the outer try
GenerationFailed_Propagates(st) ==
    Only([st EXCEPT !.q.pc = "yielded", !.q.path = "provider_error", !.q.answered_at = now,
                    !.q.events = Append(@, ErrorEvent(<<"provider error">>))])

\* lines 755-782: generation raised
GenerationFailed(st) ==
    IF st.q.retrieved_docs # <<>>
    THEN Respond(st, FallbackAnswer(st.q.retrieved_docs, st.q.query_to_use), "provider_error")
    ELSE Respond(st, <<>>, "provider_error")

\* GreetingReply that falls through to the logging and memory update
GreetingReply_Recorded(st) ==
    Respond([st EXCEPT !.q.query_to_use = st.q.message], GreetingAnswer, "greeting")

\* lines 612-620: the canned greeting, and nothing else
GreetingReply(st) ==
    Only([st EXCEPT !.q.pc = "yielded", !.q.path = "greeting", !.q.answered_at = now,
                    !.q.query_to_use = st.q.message,
                    !.q.events = <<AnswerEvent(GreetingAnswer, <<>>, st.q.message)>>])

\* lines 646-655: the answer of the knowledge graph, and nothing else
LookupReply(st, exact_answer) ==
    Only([st EXCEPT !.q.pc = "yielded", !.q.path = "lookup", !.q.answered_at = now,
                    !.q.events = <<AnswerEvent(exact_answer, <<>>, st.q.query_to_use)>>])

HasLLM == query_expander.set /\ query_expander.llm

\* lines 605-699 and 783-806: query_stream from the call to its first
\* suspension, which is a yield or the await of the generation call
Begin(message, session_id, raises, expansion) ==
    LET q0 == [NewQuery EXCEPT !.message = message, !.session_id = session_id,
                               !.answered_before = {k \in QueryIds : qs[k].pc \in {"yielded", "done"}}]
        st0 == [cache |-> cache, tasks |-> tasks, q |-> q0]
    IN  IF IsGreeting(message)
        THEN GreetingReply(st0)
        ELSE
        LET ex == IF HasLLM THEN expand_query(message, SessionKey(session_id), expansion)
                  ELSE [query |-> message, was_expanded |-> FALSE, called |-> FALSE]
            query_to_use == IF ex.was_expanded THEN ex.query ELSE message
            exact_answer == search(kg_data, query_to_use)
            st1 == [st0 EXCEPT !.q.query_to_use = query_to_use,
                               !.q.ops = (IF HasLLM THEN <<"expand_query">> ELSE <<>>)
                                         \o (IF ex.called THEN <<"expansion_call">> ELSE <<>>)
                                         \o <<"search">>]
        IN  IF Truthy(exact_answer)
            THEN LookupReply(st1, exact_answer)
            ELSE
            LET st2 == [st1 EXCEPT !.tasks = Append(@, [kind |-> "prefetch_related", query |-> query_to_use]),
                                   !.q.ops = @ \o <<"create_task", "retrieve">>]
            IN  IF bm25.built /\ raises = "retrieve"
                THEN Fail(st2, <<"retrieval failed">>)
                ELSE
                LET sc == ScoresFor(query_to_use)
                    retrieved_docs == retrieve(bm25, documents, sc.bm25_scores, sc.semantic_results, 5)
                    st3 == [st2 EXCEPT !.q.retrieved_docs = retrieved_docs,
                                       !.q.prompt_profile =
                                           IF system_prompt_builder.set
                                           THEN get_user_profile(SessionKey(session_id))
                                           ELSE <<>>,
                                       !.q.ops = @ \o <<"build_prompt">>]
                IN  LET got == CacheGet(cache, query_to_use, now)
                        st4 == [st3 EXCEPT !.cache = got.cache, !.q.ops = @ \o <<"cache_get">>]
                    IN  IF Truthy(got.value)
                        THEN Respond(st4, got.value, "cache_hit")
                        ELSE IF HasLLM
                        THEN Only([st4 EXCEPT !.q.pc = "wait_llm", !.q.ops = @ \o <<"llm_call">>])
                        ELSE IF retrieved_docs # <<>>
                        THEN Respond(st4, FallbackAnswer(retrieved_docs, query_to_use), "no_client")
                        ELSE Respond(st4, NoInfoAnswer, "no_client")

\* the assignment of a step's result to the state
Apply(i, result) ==
    \E r \in {result} :
        /\ cache' = r.cache
        /\ metrics' = r.metrics
        /\ user_profiles' = r.user_profiles
        /\ sessions' = r.sessions
        /\ tasks' = r.tasks
        /\ qs' = [qs EXCEPT ![i] = r.q]

(***************************************************************************)
(* QueryPrefetcher (rag.py 920-963).                                       *)
(***************************************************************************)
follow_up_patterns ==
    << [topic |-> topic_admission, related |-> related_admission],
       [topic |-> topic_hostel, related |-> related_hostel],
       [topic |-> topic_placement, related |-> related_placement],
       [topic |-> topic_branch, related |-> related_branch],
       [topic |-> topic_fee, related |-> related_fee],
       [topic |-> topic_courses, related |-> related_courses] >>

\* the _prefetch_query tasks one topic contributes
TopicTasks(p) ==
    [n \in 1..Len(p.related) |-> [kind |-> "_prefetch_query", query |-> p.topic \o <<" ">> \o p.related[n]]]

RECURSIVE RelatedTasks(_, _)
\* QueryPrefetcher.prefetch_related: the tasks it creates, in creation order
RelatedTasks(patterns, query_lower) ==
    IF patterns = <<>> THEN <<>>
    ELSE (IF Contains(Head(patterns).topic, query_lower) THEN TopicTasks(Head(patterns)) ELSE <<>>)
         \o RelatedTasks(Tail(patterns), query_lower)

(***************************************************************************)
(* Actions.                                                                *)
(***************************************************************************)
\* RAGService.set_clients (rag.py 596-599), as called by the endpoints of
\* api/qa.py, in a deployment that has a model client (settings.groq_client)
SetClients ==
    /\ tasks = <<>>
    /\ query_expander' = [set |-> TRUE, llm |-> TRUE]
    /\ session_history' = [s \in SessionKeys |-> <<>>]
    /\ system_prompt_builder' = [set |-> TRUE]
    /\ UNCHANGED <<kg_file, kg_data, documents, bm25, cache, sessions, user_profiles,
                   metrics, tasks, now, clock_steps, qs>>
    /\ UNCHANGED <<unit_vars, doc_vars, voice_vars>>

\* a consumer starts iterating query_stream(message, session_id)
Start(i, message, session_id, raises, expansion) ==
    /\ tasks = <<>>
    /\ qs[i].pc = "new"
    /\ \A j \in QueryIds : j < i => qs[j].pc # "new"
    /\ Apply(i, Begin(message, session_id, raises, expansion))
    /\ UNCHANGED <<kg_file, kg_data, documents, bm25, query_expander, session_history,
                   system_prompt_builder, now, clock_steps>>
    /\ UNCHANGED <<unit_vars, doc_vars, voice_vars>>

\* the generation call returns within the timeout (rag.py 720)
LLMReturn(i, content) ==
    /\ tasks = <<>>
    /\ qs[i].pc = "wait_llm"
    /\ Apply(i, AfterGeneration([cache |-> cache, tasks |-> tasks, q |-> qs[i]], content, "generated"))
    /\ UNCHANGED <<kg_file, kg_data, documents, bm25, query_expander, session_history,
                   system_prompt_builder, now, clock_steps>>
    /\ UNCHANGED <<unit_vars, doc_vars, voice_vars>>

\* LLMTimeout of an await without a timeout: the timer never fires
LLMTimeout_Never(i) ==
    /\ qs[i].pc = "wait_llm"
    /\ FALSE
    /\ UNCHANGED vars

\* asyncio.wait_for gives up after 30 seconds (rag.py 722-724)
LLMTimeout(i) ==
    /\ tasks = <<>>
    /\ qs[i].pc = "wait_llm"
    /\ Apply(i, AfterGeneration([cache |-> cache, tasks |-> tasks, q |-> qs[i]], TimeoutAnswer, "timeout"))
    /\ UNCHANGED <<kg_file, kg_data, documents, bm25, query_expander, session_history,
                   system_prompt_builder, now, clock_steps>>
    /\ UNCHANGED <<unit_vars, doc_vars, voice_vars>>

\* the generation call raises, or returns no content (rag.py 725-727, 755)
LLMError(i) ==
    /\ tasks = <<>>
    /\ qs[i].pc = "wait_llm"
    /\ Apply(i, GenerationFailed([cache |-> cache, tasks |-> tasks, q |-> qs[i]]))
    /\ UNCHANGED <<kg_file, kg_data, documents, bm25, query_expander, session_history,
                   system_prompt_builder, now, clock_steps>>
    /\ UNCHANGED <<unit_vars, doc_vars, voice_vars>>

\* the consumer asks for the event after the one yielded: the generator returns
Resume(i) ==
    /\ qs[i].pc = "yielded"
    /\ qs' = [qs EXCEPT ![i].pc = "done"]
    /\ UNCHANGED <<kg_file, kg_data, documents, bm25, query_expander, session_history,
                   system_prompt_builder, cache, sessions, user_profiles, metrics, tasks,
                   now, clock_steps>>
    /\ UNCHANGED <<unit_vars, doc_vars, voice_vars>>

\* the event loop runs the oldest background task; it runs the tasks that
\* are ready before it turns to requests, timers and finished calls, which
\* is why those actions wait for an empty task list. prefetch_related creates
\* one _prefetch_query task per related query; _prefetch_query calls retrieve
\* and discards the result
RunTask ==
    /\ tasks # <<>>
    /\ tasks' = IF Head(tasks).kind = "prefetch_related"
                THEN Tail(tasks) \o RelatedTasks(follow_up_patterns, Lower(Head(tasks).query))
                ELSE Tail(tasks)
    /\ UNCHANGED <<kg_file, kg_data, documents, bm25, query_expander, session_history,
                   system_prompt_builder, cache, sessions, user_profiles, metrics,
                   now, clock_steps, qs>>
    /\ UNCHANGED <<unit_vars, doc_vars, voice_vars>>

\* time passes: a second, or a whole time-to-live
AdvanceClock(d) ==
    /\ clock_steps < MaxClockSteps
    /\ now' = now + d
    /\ clock_steps' = clock_steps + 1
    /\ UNCHANGED <<kg_file, kg_data, documents, bm25, query_expander, session_history,
                   system_prompt_builder, cache, sessions, user_profiles, metrics, tasks, qs>>
    /\ UNCHANGED <<unit_vars, doc_vars, voice_vars>>

Next ==
    \/ SetClients
    \/ \E i \in QueryIds, message \in Messages, session_id \in SessionIds,
          raises \in {"nothing", "retrieve"}, expansion \in ExpansionOutcomes :
            Start(i, message, session_id, raises, expansion)
    \/ \E i \in QueryIds, content \in LLMContents : LLMReturn(i, content)
    \/ \E i \in QueryIds : LLMTimeout(i)
    \/ \E i \in QueryIds : LLMError(i)
    \/ \E i \in QueryIds : Resume(i)
    \/ RunTask
    \/ \E d \in {1, ttl_seconds} : AdvanceClock(d)

Spec == Init /\ [][Next]_vars

\* Next with the inputs of Start cut down to two messages of one session,
\* for the properties of behaviours
NextLive ==
    \/ SetClients
    \/ \E i \in QueryIds, message \in {msg_hi, msg_fee}, raises \in {"nothing", "retrieve"} :
            Start(i, message, "s1", raises, NoneT)
    \/ \E i \in QueryIds, content \in LLMContents : LLMReturn(i, content)
    \/ \E i \in QueryIds : LLMTimeout(i)
    \/ \E i \in QueryIds : LLMError(i)
    \/ \E i \in QueryIds : Resume(i)
    \/ RunTask
    \/ AdvanceClock(1)

\* the event loop runs its tasks, the timer of asyncio.wait_for fires, and
\* the consumer keeps iterating
FairSpec ==
    /\ Init /\ [][NextLive]_vars
    /\ WF_vars(RunTask)
    /\ \A i \in QueryIds : WF_vars(LLMTimeout(i)) /\ WF_vars(Resume(i))

(***************************************************************************)
(* The voice endpoint (api/voice.py).  It keeps a ConversationMemory of    *)
(* its own next to the one of the RAG service; both instances save to      *)
(* chroma_db/conversation_memory.json and chroma_db/user_profiles.json.    *)
(***************************************************************************)
\* the session id of the voice socket, and the one of a client of the text endpoint
VoiceIds == {"s1"}

TextIds == {"s2"}

Transcripts == {msg_hi, msg_hod, msg_rank}

\* what the model call of a turn comes back with
Outcomes == {"returns", "timeout", "error"}

\* del d[k]
DictRemove(d, k) == [x \in DOMAIN d \ {k} |-> d[x]]

\* ConversationMemory.create_session on a session table
create_session(table, session_id) ==
    IF session_id \in DOMAIN table THEN table ELSE DictPut(table, session_id, <<>>)

\* ConversationMemory.update_last_response on a session table
update_last_response(table, session_id, new_response) ==
    IF session_id \in DOMAIN table /\ table[session_id] # <<>>
    THEN [table EXCEPT ![session_id][Len(table[session_id])].bot_response = new_response]
    ELSE table

\* ConversationMemory.delete_session on a table of sessions or of profiles
delete_session(table, session_id) ==
    IF session_id \in DOMAIN table THEN DictRemove(table, session_id) ELSE table

\* query_stream run to its event: the steps of Begin and, when it waits for
\* the model call, the step that ends the wait
RagTurn(message, session_id, raises, outcome) ==
    LET Finish(r) ==
            IF r.q.pc # "wait_llm" THEN r
            ELSE LET st == [cache |-> r.cache, tasks |-> r.tasks, q |-> r.q]
                 IN  IF outcome = "timeout" THEN AfterGeneration(st, TimeoutAnswer, "timeout")
                     ELSE IF outcome = "error" THEN GenerationFailed(st)
                     ELSE AfterGeneration(st, <<"generated answer">>, "generated")
    IN  With(Finish, Begin(message, session_id, raises, NoneT))

DefaultResponse ==
    <<"I don't have that information. Please contact Dr. B.C. Roy Engineering College Admissions at +91-343-2567890">>

\* voice.py 115-128: the text the handler takes from the event
ResponseText(event) ==
    LET response_text == IF event.type = "answer" THEN event.answer
                         ELSE <<"I'm having trouble processing your request: ">> \o event.answer
    IN  IF response_text = <<>> THEN DefaultResponse ELSE response_text

\* voice.py 31-45: a socket is accepted and its session created
Connect(session_id) ==
    /\ session_id \notin DOMAIN sockets
    /\ sockets' = DictPut(sockets, session_id, "open")
    /\ voice_sessions' = create_session(voice_sessions, session_id)
    /\ memory_file' = IF session_id \in DOMAIN voice_sessions THEN memory_file ELSE voice_sessions'
    /\ UNCHANGED <<service_vars, unit_vars, doc_vars, speech_vars, voice_profiles, profile_file, audio_cache>>

\* voice.py 57-176: one transcript of an open socket, in a deployment that
\* has a model client.  Slot i holds the query_stream call of the turn.
Turn(i, session_id, transcript, raises, outcome, tts_ok) ==
    /\ tasks = <<>>
    /\ session_id \in DOMAIN sockets /\ sockets[session_id] = "open"
    /\ qs[i].pc = "new"
    /\ \A j \in QueryIds : j < i => qs[j].pc # "new"
    /\ Strip(transcript) # <<>>
    /\ Len(voice_sessions[session_id]) < MaxTurns
    /\ LET cache_key == <<session_id, Strip(Lower(transcript))>>
           added == add_interaction(voice_sessions, session_id, transcript, <<>>)
       IN  IF cache_key \in DOMAIN audio_cache
           THEN /\ voice_sessions' = added
                /\ memory_file' = added
                /\ UNCHANGED <<service_vars, unit_vars, doc_vars, speech_vars, voice_profiles, profile_file,
                               audio_cache, sockets>>
           ELSE \E r \in {RagTurn(transcript, session_id, raises, outcome)} :
                  LET response_text == ResponseText(r.q.events[1])
                      updated == update_last_response(added, session_id, response_text)
                  IN  /\ cache' = r.cache
                      /\ metrics' = r.metrics
                      /\ user_profiles' = r.user_profiles
                      /\ sessions' = r.sessions
                      /\ tasks' = r.tasks
                      /\ qs' = [qs EXCEPT ![i] = [r.q EXCEPT !.pc = "done"]]
                      /\ voice_sessions' = updated
                      /\ memory_file' = updated
                      /\ profile_file' = IF r.user_profiles # user_profiles THEN r.user_profiles
                                         ELSE profile_file
                      /\ audio_cache' = IF tts_ok THEN DictPut(audio_cache, cache_key, response_text)
                                        ELSE audio_cache
                      /\ UNCHANGED <<kg_file, kg_data, documents, bm25, query_expander,
                                     session_history, system_prompt_builder, now, clock_steps,
                                     unit_vars, doc_vars, speech_vars, voice_profiles, sockets>>

\* api/qa.py 70-71: a query of the text endpoint, run to its event
TextQuery(i, message, session_id, raises, outcome) ==
    /\ tasks = <<>>
    /\ qs[i].pc = "new"
    /\ \A j \in QueryIds : j < i => qs[j].pc # "new"
    /\ \E r \in {RagTurn(message, session_id, raises, outcome)} :
          /\ cache' = r.cache
          /\ metrics' = r.metrics
          /\ user_profiles' = r.user_profiles
          /\ sessions' = r.sessions
          /\ tasks' = r.tasks
          /\ qs' = [qs EXCEPT ![i] = [r.q EXCEPT !.pc = "done"]]
          /\ memory_file' = IF r.sessions # sessions THEN r.sessions ELSE memory_file
          /\ profile_file' = IF r.user_profiles # user_profiles THEN r.user_profiles
                             ELSE profile_file
    /\ UNCHANGED <<kg_file, kg_data, documents, bm25, query_expander, session_history,
                   system_prompt_builder, now, clock_steps, unit_vars, doc_vars, speech_vars,
                   voice_sessions, voice_profiles, audio_cache, sockets>>

\* voice.py 207-213: the socket closes and the handler cleans up
Close(session_id) ==
    /\ tasks = <<>>
    /\ session_id \in DOMAIN sockets /\ sockets[session_id] = "open"
    /\ sockets' = [sockets EXCEPT ![session_id] = "closed"]
    /\ voice_sessions' = delete_session(voice_sessions, session_id)
    /\ memory_file' = IF session_id \in DOMAIN voice_sessions THEN voice_sessions' ELSE memory_file
    /\ voice_profiles' = delete_session(voice_profiles, session_id)
    /\ profile_file' = IF session_id \in DOMAIN voice_profiles THEN voice_profiles' ELSE profile_file
    /\ audio_cache' = [key \in {x \in DOMAIN audio_cache : x[1] # session_id} |-> audio_cache[key]]
    /\ UNCHANGED <<service_vars, unit_vars, doc_vars, speech_vars>>

\* the service once set_clients has run, which every turn calls before
\* query_stream (voice.py 112, qa.py): no call of query_stream sees it unset
VoiceInit ==
    /\ kg_file = "knowledge_graph.json"
    /\ kg_data = Load(kg_file)
    /\ documents \in {<<>>, Corpus}
    /\ bm25 = [built |-> documents # <<>>, corpus |-> documents]
    /\ query_expander = [set |-> TRUE, llm |-> TRUE]
    /\ session_history = [s \in SessionKeys |-> <<>>]
    /\ system_prompt_builder = [set |-> TRUE]
    /\ cache = <<>>
    /\ sessions = EmptyDict
    /\ user_profiles = EmptyDict
    /\ metrics = <<>>
    /\ tasks = <<>>
    /\ now = 0
    /\ clock_steps = 0
    /\ qs = [i \in QueryIds |-> NewQuery]
    /\ UnitIdle
    /\ VoiceIdle
    /\ DocIdle
    /\ AdminIdle

VoiceNext ==
    \/ \E session_id \in VoiceIds : Connect(session_id)
    \/ \E i \in QueryIds, session_id \in VoiceIds, transcript \in Transcripts,
          raises \in {"nothing", "retrieve"}, outcome \in Outcomes, tts_ok \in BOOLEAN :
            Turn(i, session_id, transcript, raises, outcome, tts_ok)
    \/ \E i \in QueryIds, message \in Transcripts, session_id \in TextIds,
          raises \in {"nothing", "retrieve"}, outcome \in Outcomes :
            TextQuery(i, message, session_id, raises, outcome)
    \/ \E session_id \in VoiceIds : Close(session_id)
    \/ RunTask

VoiceSpec == VoiceInit /\ [][VoiceNext]_vars

(***************************************************************************)
(* The voice turn with its text-to-speech call (api/voice.py 135-168,      *)
(* services/tts.py 23-39): the handler awaits tts_service.text_to_speech,  *)
(* which awaits the gTTS request and, if that raises, pyttsx3.             *)
(***************************************************************************)
\* the messages of voice.py 86-89 and 152-157 / 164-168
TranscriptMessage(transcript) == [type |-> "transcript", text |-> transcript]

AnswerMessage(text, session_id) == [type |-> "answer", text |-> text, session_id |-> session_id]

\* voice.py 57-140: a transcript is received and processed up to the await
\* of text_to_speech; a transcript answered before is answered from audio_cache
Receive(i, session_id, transcript, raises, outcome) ==
    /\ tasks = <<>>
    /\ session_id \in DOMAIN sockets /\ sockets[session_id] = "open"
    /\ pending_tts.pc = "idle"
    /\ qs[i].pc = "new"
    /\ \A j \in QueryIds : j < i => qs[j].pc # "new"
    /\ Strip(transcript) # <<>>
    /\ Len(voice_sessions[session_id]) < MaxTurns
    /\ LET cache_key == <<session_id, Strip(Lower(transcript))>>
           added == add_interaction(voice_sessions, session_id, transcript, <<>>)
       IN  IF cache_key \in DOMAIN audio_cache
           THEN /\ voice_sessions' = added
                /\ memory_file' = added
                /\ sent' = Append(sent, AnswerMessage(audio_cache[cache_key], session_id))
                /\ UNCHANGED <<service_vars, unit_vars, doc_vars, voice_profiles, profile_file,
                               audio_cache, sockets, pending_tts>>
           ELSE \E r \in {RagTurn(transcript, session_id, raises, outcome)} :
                  LET response_text == ResponseText(r.q.events[1])
                      updated == update_last_response(added, session_id, response_text)
                  IN  /\ cache' = r.cache
                      /\ metrics' = r.metrics
                      /\ user_profiles' = r.user_profiles
                      /\ sessions' = r.sessions
                      /\ tasks' = r.tasks
                      /\ qs' = [qs EXCEPT ![i] = [r.q EXCEPT !.pc = "done"]]
                      /\ voice_sessions' = updated
                      /\ memory_file' = updated
                      /\ profile_file' = IF r.user_profiles # user_profiles THEN r.user_profiles
                                         ELSE profile_file
                      /\ sent' = Append(sent, TranscriptMessage(transcript))
                      /\ pending_tts' = [pc |-> "wait", session_id |-> session_id,
                                         cache_key |-> cache_key, response_text |-> response_text]
                      /\ UNCHANGED <<kg_file, kg_data, documents, bm25, query_expander,
                                     session_history, system_prompt_builder, now, clock_steps,
                                     unit_vars, doc_vars, voice_profiles, audio_cache, sockets>>

\* tts.py 35-39: the awaited call comes back, with the audio bytes of gTTS or
\* of pyttsx3 ("returns") or with the exception of pyttsx3 ("raises").
\* Neither await carries a timeout: a provider that does not respond never
\* takes this step.
TtsCompletes(outcome) ==
    /\ pending_tts.pc = "wait"
    /\ pending_tts' = [pending_tts EXCEPT !.pc = outcome]
    /\ UNCHANGED <<service_vars, unit_vars, doc_vars, voice_sessions, voice_profiles, memory_file,
                   profile_file, audio_cache, sockets, sent>>

\* voice.py 141-168: the handler resumes, caches the answer text if the call
\* returned, and sends the answer
TtsResume ==
    /\ pending_tts.pc \in {"returns", "raises"}
    /\ audio_cache' = IF pending_tts.pc = "returns"
                      THEN DictPut(audio_cache, pending_tts.cache_key, pending_tts.response_text)
                      ELSE audio_cache
    /\ sent' = Append(sent, AnswerMessage(pending_tts.response_text, pending_tts.session_id))
    /\ pending_tts' = [pc |-> "idle"]
    /\ UNCHANGED <<service_vars, unit_vars, doc_vars, voice_sessions, voice_profiles, memory_file,
                   profile_file, sockets>>

TtsNext ==
    \/ \E session_id \in VoiceIds : Connect(session_id)
    \/ \E i \in QueryIds, session_id \in VoiceIds, transcript \in Transcripts,
          raises \in {"nothing", "retrieve"}, outcome \in Outcomes :
            Receive(i, session_id, transcript, raises, outcome)
    \/ \E outcome \in {"returns", "raises"} : TtsCompletes(outcome)
    \/ TtsResume
    \/ RunTask

TtsSpec == VoiceInit /\ [][TtsNext]_vars

\* the event loop resumes a handler whose awaited call has completed and
\* runs the tasks it was given; nothing makes the provider respond
TtsFairSpec == TtsSpec /\ WF_vars(TtsResume) /\ WF_vars(RunTask)

(***************************************************************************)
(* HybridRetriever taken on its own: a corpus, a query and k.              *)
(* The query enters through what the two indexes make of it: the number of *)
(* query terms each chunk holds, and the similarity FAISS finds per chunk. *)
(***************************************************************************)
\* the largest k that retrieve is called with
MaxK == 3

\* the number of chunks of an indexed corpus
CorpusSize == 3

Sources == {"a.pdf", "b.pdf"}

\* chunk i of a corpus whose chunks come from the files src[1], src[2], ...
Chunk(src, i) == [text |-> <<"chunk ">> \o IntToStr(i), source |-> src[i]]

\* BM25Okapi.get_scores (rag.py 158), in hundredths: a sum over the query
\* terms the chunk holds, 0 for a chunk that holds none
get_scores(shared) == [i \in 1..Len(shared) |-> 50 * shared[i]]

\* the indexes of s in the order of decreasing similarity, equal ones in
\* index order
RECURSIVE Nearest(_, _)
Nearest(similarity, left) ==
    IF left = {} THEN <<>>
    ELSE LET top == CHOOSE i \in left :
                       \A j \in left : \/ similarity[j] < similarity[i]
                                       \/ (similarity[j] = similarity[i] /\ i <= j)
         IN  <<top>> \o Nearest(similarity, left \ {top})

\* FAISSVectorStore.search(query, k): the k nearest chunks with their
\* similarity, nothing from a store without model, index or documents
vector_search(docs, similarity, store_ready, k) ==
    IF ~store_ready \/ docs = <<>> THEN <<>>
    ELSE LET order == Nearest(similarity, 1..Len(docs))
         IN  [n \in 1..Min(k, Len(docs)) |-> [doc |-> docs[order[n]], score |-> similarity[order[n]]]]

\* HybridRetriever._normalize_scores, in hundredths
_normalize_scores(scores) ==
    IF Len(scores) = 0 THEN <<>>
    ELSE LET min_score == CHOOSE x \in {scores[i] : i \in 1..Len(scores)} :
                             \A i \in 1..Len(scores) : x <= scores[i]
             max_score == CHOOSE x \in {scores[i] : i \in 1..Len(scores)} :
                             \A i \in 1..Len(scores) : x >= scores[i]
         IN  IF max_score = min_score THEN [i \in 1..Len(scores) |-> 50]
             ELSE [i \in 1..Len(scores) |-> ((scores[i] - min_score) * 100) \div (max_score - min_score)]

\* the corpora, queries and values of k that retrieve is called with.  A
\* call with k = 0 is made on a store that is not ready, where search
\* returns before it reaches FAISS.
RetrieveInputs ==
    { [built |-> FALSE, documents |-> <<>>, shared |-> <<>>, similarity |-> <<>>,
       store_ready |-> FALSE, k |-> k] : k \in 0..MaxK }
    \cup
    { in \in [built : {TRUE},
              documents : {[i \in 1..CorpusSize |-> Chunk(src, i)] : src \in [1..CorpusSize -> Sources]},
              shared : [1..CorpusSize -> 0..2],
              similarity : [1..CorpusSize -> {30, 60}],
              store_ready : BOOLEAN,
              k : 0..MaxK] : in.k = 0 => ~in.store_ready }

\* hybrid_retriever.retrieve(query, k) on r_in
RetrieveCall ==
    retrieve(r_in, r_in.documents, get_scores(r_in.shared),
             vector_search(r_in.documents, r_in.similarity, r_in.store_ready, r_in.k * 2),
             r_in.k)

\* retrieve is called, at most twice on the same index and query
Retrieve ==
    /\ Len(r_out) < 2
    /\ r_out' = Append(r_out, RetrieveCall)
    /\ UNCHANGED <<service_vars, voice_vars, doc_vars, r_in, cache_calls>>

RetrieveInit ==
    /\ ServiceInit
    /\ VoiceIdle
    /\ r_in \in RetrieveInputs
    /\ r_out = <<>>
    /\ cache_calls = <<>>
    /\ DocIdle
    /\ AdminIdle

RetrieveNext == Retrieve

RetrieveSpec == RetrieveInit /\ [][RetrieveNext]_vars

(***************************************************************************)
(* Corpora whose chunks begin alike: rows of one table, or sections under  *)
(* one running header, share their first 50 characters.                    *)
(***************************************************************************)
\* 50 characters that several chunks begin with
Header == [n \in 1..50 |-> "h"]

\* chunk i of file a.pdf, which begins with the header or does not
HeadedChunk(headed, i) ==
    [text |-> (IF headed[i] THEN Header ELSE <<"chunk ">>) \o IntToStr(i), source |-> "a.pdf"]

\* corpora of which fewer chunks than there are fit among the 2k candidates
HeadedInputs ==
    [built : {TRUE},
     documents : {[i \in 1..CorpusSize |-> HeadedChunk(headed, i)] : headed \in [1..CorpusSize -> BOOLEAN]},
     shared : [1..CorpusSize -> 0..1],
     similarity : [1..CorpusSize -> {30, 60}],
     store_ready : {TRUE},
     k : 1..2]

HeadedInit ==
    /\ ServiceInit
    /\ VoiceIdle
    /\ r_in \in HeadedInputs
    /\ r_out = <<>>
    /\ cache_calls = <<>>
    /\ DocIdle
    /\ AdminIdle

HeadedSpec == HeadedInit /\ [][RetrieveNext]_vars

(***************************************************************************)
(* ResponseCache taken on its own (rag.py 451-522): calls of set and get   *)
(* on caches that are empty or hold max_size entries, with the clock       *)
(* moving between the calls.                                               *)
(***************************************************************************)
\* the calls of set and get made on one cache
MaxCalls == 3

\* how often the clock moves between the calls
MaxElapse == 2

\* the queries of the calls: two spellings of one query, and a query that a
\* full cache holds
CacheQueries == {msg_fee, msg_Fee_sp, IntToStr(7)}

\* a cache that set() has filled with the queries "1" .. "100" at time 0 and
\* in which set() has then written every entry but the one of query `old`
\* again at time 1; old = 0 leaves no entry behind
FullCache(old) ==
    [i \in 1..max_size |->
        [key |-> _hash_query(IntToStr(i)), answer |-> <<"stored">>,
         timestamp |-> IF i = old THEN 0 ELSE 1, query |-> IntToStr(i)]]

\* the answer that the next call of set stores
NextAnswer == <<"answer ">> \o IntToStr(Len(cache_calls) + 1)

\* response_cache.set(query, NextAnswer)
CallSet(query) ==
    /\ Len(cache_calls) < MaxCalls
    /\ cache' = CacheSet(cache, query, NextAnswer, now)
    /\ cache_calls' = Append(cache_calls,
                             [op |-> "set", query |-> query, answer |-> NextAnswer,
                              value |-> NoneT, at |-> now])
    /\ UNCHANGED <<kg_file, kg_data, documents, bm25, query_expander, session_history,
                   system_prompt_builder, sessions, user_profiles, metrics, tasks,
                   now, clock_steps, qs, r_in, r_out, voice_vars, doc_vars>>

\* response_cache.get(query)
CallGet(query) ==
    /\ Len(cache_calls) < MaxCalls
    /\ \E got \in {CacheGet(cache, query, now)} :
          /\ cache' = got.cache
          /\ cache_calls' = Append(cache_calls,
                                   [op |-> "get", query |-> query, answer |-> NoneT,
                                    value |-> got.value, at |-> now])
    /\ UNCHANGED <<kg_file, kg_data, documents, bm25, query_expander, session_history,
                   system_prompt_builder, sessions, user_profiles, metrics, tasks,
                   now, clock_steps, qs, r_in, r_out, voice_vars, doc_vars>>

\* d seconds pass; nothing runs in ResponseCache meanwhile
Elapse(d) ==
    /\ clock_steps < MaxElapse
    /\ now' = now + d
    /\ clock_steps' = clock_steps + 1
    /\ UNCHANGED <<kg_file, kg_data, documents, bm25, query_expander, session_history,
                   system_prompt_builder, cache, sessions, user_profiles, metrics, tasks,
                   qs, unit_vars, voice_vars, doc_vars>>

\* ResponseCache.__init__, or a cache that has been filled
CacheInit ==
    /\ kg_file = "knowledge_graph.json"
    /\ kg_data = Load(kg_file)
    /\ documents = <<>>
    /\ bm25 = [built |-> FALSE, corpus |-> <<>>]
    /\ query_expander = [set |-> FALSE, llm |-> FALSE]
    /\ session_history = [s \in SessionKeys |-> <<>>]
    /\ system_prompt_builder = [set |-> FALSE]
    /\ cache \in {<<>>} \cup {FullCache(old) : old \in {0, 1, 7, max_size}}
    /\ sessions = EmptyDict
    /\ user_profiles = EmptyDict
    /\ metrics = <<>>
    /\ tasks = <<>>
    /\ now = 1
    /\ clock_steps = 0
    /\ qs = [i \in QueryIds |-> NewQuery]
    /\ UnitIdle
    /\ VoiceIdle
    /\ DocIdle
    /\ AdminIdle

CacheNext ==
    \/ \E query \in CacheQueries : CallSet(query)
    \/ \E query \in CacheQueries : CallGet(query)
    \/ \E d \in {1, ttl_seconds - 1} : Elapse(d)

CacheSpec == CacheInit /\ [][CacheNext]_vars

\* response_cache.clear()
CallClear ==
    /\ Len(cache_calls) < MaxCalls
    /\ cache' = CacheClear(cache)
    /\ cache_calls' = Append(cache_calls,
                             [op |-> "clear", query |-> NoneT, answer |-> NoneT,
                              value |-> NoneT, at |-> now])
    /\ UNCHANGED <<kg_file, kg_data, documents, bm25, query_expander, session_history,
                   system_prompt_builder, sessions, user_profiles, metrics, tasks,
                   now, clock_steps, qs, r_in, r_out, voice_vars, doc_vars>>

\* the calls of CacheNext, and clear
CacheClearNext ==
    \/ CacheNext
    \/ CallClear

CacheClearSpec == CacheInit /\ [][CacheClearNext]_vars

(***************************************************************************)
(* The response cache as query_stream fills it (rag.py 729-741): every     *)
(* generated answer is written with a second entry, the time of the write. *)
(***************************************************************************)
\* the two entries that query_stream writes for the answer of query k,
\* generated at time k
StoredPair(k) ==
    << [key |-> _hash_query(IntToStr(k)), answer |-> <<"stored">>, timestamp |-> k,
        query |-> IntToStr(k)],
       [key |-> _hash_query(IntToStr(k) \o last_write_suffix), answer |-> IntToStr(k),
        timestamp |-> k, query |-> IntToStr(k) \o last_write_suffix] >>

\* the cache after the answers of the queries "1" .. "n" have been
\* generated, n at most max_size \div 2 so that no set has evicted yet
StoredBy(n) == [j \in 1..(2 * n) |-> StoredPair((j + 1) \div 2)[2 - (j % 2)]]

\* the answers stored before, as the set calls that stored them
StoredCalls(n) ==
    [k \in 1..n |-> [op |-> "set", query |-> IntToStr(k), answer |-> <<"stored">>,
                     value |-> NoneT, at |-> k]]

\* a service with a model client that has answered n distinct queries
FillInit ==
    /\ kg_file = "knowledge_graph.json"
    /\ kg_data = Load(kg_file)
    /\ documents \in {<<>>, Corpus}
    /\ bm25 = [built |-> documents # <<>>, corpus |-> documents]
    /\ query_expander = [set |-> TRUE, llm |-> TRUE]
    /\ session_history = [s \in SessionKeys |-> <<>>]
    /\ system_prompt_builder = [set |-> TRUE]
    /\ \E n \in {0, 1, (max_size \div 2) - 1, max_size \div 2} :
          /\ cache = StoredBy(n)
          /\ cache_calls = StoredCalls(n)
          /\ now = n + 1
    /\ sessions = EmptyDict
    /\ user_profiles = EmptyDict
    /\ metrics = <<>>
    /\ tasks = <<>>
    /\ clock_steps = 0
    /\ qs = [i \in QueryIds |-> NewQuery]
    /\ r_in = NoInput
    /\ r_out = <<>>
    /\ VoiceIdle
    /\ DocIdle
    /\ AdminIdle

FillNext ==
    \/ \E i \in QueryIds, message \in {msg_fee, msg_hod}, session_id \in SessionIds :
            Start(i, message, session_id, "nothing", NoneT)
    \/ \E i \in QueryIds, content \in LLMContents : LLMReturn(i, content)
    \/ \E i \in QueryIds : LLMTimeout(i)
    \/ RunTask
    \/ AdvanceClock(1)

FillSpec == FillInit /\ [][FillNext]_vars

(***************************************************************************)
(* Sessions with a profile (conversation_memory.py 10-42, rag.py 675-697): *)
(* the service is constructed on the user_profiles.json that an earlier    *)
(* run has saved.                                                          *)
(***************************************************************************)
\* the profiles an earlier run has saved: none, or the rank of session s1
SavedProfiles == {EmptyDict, [s \in {"s1"} |-> [k \in {"wbjee_rank"} |-> IntToStr(7)]]}

\* the sessions that ask
ProfileSessions == {"s1", "s2"}

\* SystemPromptBuilder.build_system_prompt (rag.py 362-372): whether the
\* prompt carries a <user_context> block
HasUserContext(user_profile) ==
    /\ user_profile # EmptyDict
    /\ \/ DictGet(user_profile, "wbjee_rank", <<"Not provided">>) # <<"Not provided">>
       \/ DictGet(user_profile, "interests", <<"Not provided">>) # <<"Not provided">>

\* a service with a model client, constructed on the saved profiles
ProfileInit ==
    /\ kg_file = "knowledge_graph.json"
    /\ kg_data = Load(kg_file)
    /\ documents \in {<<>>, Corpus}
    /\ bm25 = [built |-> documents # <<>>, corpus |-> documents]
    /\ query_expander = [set |-> TRUE, llm |-> TRUE]
    /\ session_history = [s \in SessionKeys |-> <<>>]
    /\ system_prompt_builder = [set |-> TRUE]
    /\ cache = <<>>
    /\ sessions = EmptyDict
    /\ user_profiles \in SavedProfiles
    /\ metrics = <<>>
    /\ tasks = <<>>
    /\ now = 0
    /\ clock_steps = 0
    /\ qs = [i \in QueryIds |-> NewQuery]
    /\ UnitIdle
    /\ voice_sessions = EmptyDict
    /\ voice_profiles = EmptyDict
    /\ memory_file = EmptyDict
    /\ profile_file = user_profiles
    /\ audio_cache = EmptyDict
    /\ sockets = EmptyDict
    /\ pending_tts = [pc |-> "idle"]
    /\ sent = <<>>
    /\ DocIdle
    /\ AdminIdle

ProfileNext ==
    \/ \E i \in QueryIds, message \in {msg_fee, msg_branches}, session_id \in ProfileSessions :
            Start(i, message, session_id, "nothing", NoneT)
    \/ \E i \in QueryIds, content \in LLMContents : LLMReturn(i, content)
    \/ \E i \in QueryIds : Resume(i)
    \/ RunTask
    \/ AdvanceClock(1)

ProfileSpec == ProfileInit /\ [][ProfileNext]_vars

(***************************************************************************)
(* The greeting test of query_stream (rag.py 608-621) on messages that     *)
(* hold a greeting word, and on messages that hold one inside a word.      *)
(***************************************************************************)
msg_machine == <<"m","a","c","h","i","n","e"," ","l","e","a","r","n","i","n","g">>
msg_coding == <<"c","o","d","i","n","g">>
msg_hi_there == <<"h","i"," ","t","h","e","r","e">>

\* a greeting, a greeting in a sentence, a message about an interest, and
\* one about an interest whose word "machine" holds the letters of "hi"
GreetMessages == {msg_hi, msg_hi_there, msg_coding, msg_machine}

GreetNext ==
    \/ SetClients
    \/ \E i \in QueryIds, message \in GreetMessages, session_id \in {"s1"} :
            Start(i, message, session_id, "nothing", NoneT)
    \/ \E i \in QueryIds, content \in LLMContents : LLMReturn(i, content)
    \/ \E i \in QueryIds : LLMError(i)
    \/ \E i \in QueryIds : Resume(i)
    \/ RunTask

GreetSpec == Init /\ [][GreetNext]_vars

(***************************************************************************)
(* DocumentProcessor._create_chunks (document_processor.py 133-204).       *)
(* A text is a sequence of characters.  A chunk is kept with the way it    *)
(* was made: hard tells a piece of an oversized sentence, with the number  *)
(* of the sentence and the offset of the piece in it, and carried is the   *)
(* length of the sentence that a chunk took over from the chunk before.    *)
(***************************************************************************)
\* the longest text given to _create_chunks
MaxTextLen == 7

\* the largest chunk_size of a DocumentProcessor
MaxChunkSize == 3

\* the characters of the texts: a letter, a sentence terminator, a blank
TextChars == {"a", ".", " "}

\* the [.?!] of the pattern of re.split
Terminators == {".", "?", "!"}

RECURSIVE Replace(_, _, _)
\* str.replace(old, new), old not empty
Replace(s, old, new) ==
    IF Len(s) < Len(old) THEN s
    ELSE IF SubSeq(s, 1, Len(old)) = old
         THEN new \o Replace(SubSeq(s, Len(old) + 1, Len(s)), old, new)
         ELSE <<s[1]>> \o Replace(Tail(s), old, new)

RECURSIVE SplitParts(_)
\* re.split(r'([.?!])\s+', text): the texts between the matches, each match
\* represented by the terminator it captured
SplitParts(s) ==
    LET at == {i \in 1..(Len(s) - 1) : s[i] \in Terminators /\ s[i + 1] \in Whitespace}
    IN  IF at = {} THEN <<s>>
        ELSE LET i == CHOOSE x \in at : \A y \in at : x <= y
                 j == CHOOSE e \in (i + 1)..Len(s) :
                         /\ \A x \in (i + 1)..e : s[x] \in Whitespace
                         /\ (e = Len(s) \/ s[e + 1] \notin Whitespace)
             IN  <<SubSeq(s, 1, i - 1), <<s[i]>>>> \o SplitParts(SubSeq(s, j + 1, Len(s)))

\* DocumentProcessor._split_into_sentences
_split_into_sentences(text) ==
    LET parts == SplitParts(Replace(Replace(Replace(Replace(text,
                     <<"M","r",".">>, <<"M","r">>), <<"M","r","s",".">>, <<"M","r","s">>),
                     <<"D","r",".">>, <<"D","r">>), <<"v","s",".">>, <<"v","s">>))
        paired == [n \in 1..((Len(parts) - 1) \div 2) |-> Strip(parts[2 * n - 1] \o parts[2 * n])]
        sentences == IF Len(parts) % 2 = 1 /\ parts[Len(parts)] # <<>>
                     THEN Append(paired, Strip(parts[Len(parts)]))
                     ELSE paired
    IN  SelectSeq(sentences, LAMBDA s : s # <<>>)

RECURSIVE Join(_)
\* " ".join(current_chunk)
Join(current_chunk) ==
    IF current_chunk = <<>> THEN <<>>
    ELSE IF Len(current_chunk) = 1 THEN current_chunk[1]
    ELSE current_chunk[1] \o <<" ">> \o Join(Tail(current_chunk))

\* a chunk made of whole sentences
Joined(current_chunk, carried) ==
    [text |-> Join(current_chunk), hard |-> FALSE, sentence |-> 0, offset |-> 0, carried |-> carried]

\* HardSplit with pieces of one character more than chunk_size
HardSplit_Wide(sentence, n, chunk_size, chunk_overlap) ==
    LET step == chunk_size - chunk_overlap
        starts == IF step > 0 THEN {i \in 0..(Len(sentence) - 1) : i % step = 0} ELSE {}
    IN  [m \in 1..Cardinality(starts) |->
            [text |-> SubSeq(sentence, (m - 1) * step + 1, Min((m - 1) * step + chunk_size + 1, Len(sentence))),
             hard |-> TRUE, sentence |-> n, offset |-> (m - 1) * step, carried |-> 0]]

\* lines 156-157: sentence[i:i + chunk_size] for i in range(0, sentence_len,
\* chunk_size - chunk_overlap), the step not 0; a range with a negative step
\* and a positive stop is empty
HardSplit(sentence, n, chunk_size, chunk_overlap) ==
    LET step == chunk_size - chunk_overlap
        starts == IF step > 0 THEN {i \in 0..(Len(sentence) - 1) : i % step = 0} ELSE {}
    IN  [m \in 1..Cardinality(starts) |->
            [text |-> SubSeq(sentence, (m - 1) * step + 1, Min((m - 1) * step + chunk_size, Len(sentence))),
             hard |-> TRUE, sentence |-> n, offset |-> (m - 1) * step, carried |-> 0]]

RECURSIVE ChunkLoop(_, _, _, _, _, _, _, _)
\* lines 144-182: the loop over the sentences from sentence n on, and the
\* last chunk; range() raises ValueError for a step of 0
ChunkLoop(sentences, n, chunks, current_chunk, current_length, carried, chunk_size, chunk_overlap) ==
    IF n > Len(sentences)
    THEN [raised |-> FALSE,
          chunks |-> IF current_chunk # <<>> THEN Append(chunks, Joined(current_chunk, carried))
                     ELSE chunks]
    ELSE LET sentence == sentences[n]
             sentence_len == Len(sentence)
         IN  IF sentence_len > chunk_size
             THEN IF chunk_size - chunk_overlap = 0
                  THEN [raised |-> TRUE, chunks |-> <<>>]
                  ELSE ChunkLoop(sentences, n + 1,
                                 (IF current_chunk # <<>>
                                  THEN Append(chunks, Joined(current_chunk, carried)) ELSE chunks)
                                     \o HardSplit(sentence, n, chunk_size, chunk_overlap),
                                 <<>>, 0, 0, chunk_size, chunk_overlap)
             ELSE IF current_length + sentence_len + 1 > chunk_size
             THEN LET overlap_text == IF current_chunk # <<>> THEN current_chunk[Len(current_chunk)]
                                      ELSE <<>>
                  IN  ChunkLoop(sentences, n + 1,
                                Append(chunks, Joined(current_chunk, carried)),
                                IF overlap_text # <<>> THEN <<overlap_text, sentence>> ELSE <<sentence>>,
                                IF overlap_text # <<>> THEN Len(overlap_text) + 1 + sentence_len
                                ELSE sentence_len,
                                Len(overlap_text), chunk_size, chunk_overlap)
             ELSE ChunkLoop(sentences, n + 1, chunks, Append(current_chunk, sentence),
                            current_length + sentence_len + 1, carried, chunk_size, chunk_overlap)

\* DocumentProcessor._create_chunks
_create_chunks(text, chunk_size, chunk_overlap) ==
    IF Strip(text) = <<>> THEN [raised |-> FALSE, chunks |-> <<>>]
    ELSE ChunkLoop(_split_into_sentences(text), 1, <<>>, <<>>, 0, 0, chunk_size, chunk_overlap)

RECURSIVE Texts(_)
\* the texts of at most n characters
Texts(n) ==
    IF n = 0 THEN {<<>>}
    ELSE LET shorter == Texts(n - 1)
         IN  shorter \cup {Append(t, c) : t \in {s \in shorter : Len(s) = n - 1}, c \in TextChars}

\* the texts and the configurations of DocumentProcessor(chunk_size,
\* chunk_overlap): an overlap below, at and above the chunk size
ChunkInputs ==
    { in \in [built : {TRUE}, text : Texts(MaxTextLen), chunk_size : 2..MaxChunkSize,
              chunk_overlap : 0..(MaxChunkSize + 1)] : in.chunk_overlap <= in.chunk_size + 1 }

\* doc_processor._create_chunks(text)
CreateChunks ==
    /\ c_out = <<>>
    /\ c_out' = <<[of |-> 0, result |-> _create_chunks(c_in.text, c_in.chunk_size, c_in.chunk_overlap)]>>
    /\ UNCHANGED <<service_vars, unit_vars, voice_vars, admin_vars, c_in, vector_store, store_files, indexing, reader>>

\* _create_chunks on chunk n of the result, with the same processor
Rechunk(n) ==
    /\ Len(c_out) = 1
    /\ ~c_out[1].result.raised
    /\ n \in 1..Len(c_out[1].result.chunks)
    /\ c_out' = Append(c_out, [of |-> n,
                               result |-> _create_chunks(c_out[1].result.chunks[n].text,
                                                         c_in.chunk_size, c_in.chunk_overlap)])
    /\ UNCHANGED <<service_vars, unit_vars, voice_vars, admin_vars, c_in, vector_store, store_files, indexing, reader>>

ChunkInit ==
    /\ ServiceInit /\ UnitIdle /\ VoiceIdle
    /\ c_in \in ChunkInputs
    /\ c_out = <<>>
    /\ vector_store = [model |-> NoModel, index |-> NoIndex, documents |-> <<>>]
    /\ store_files = [index_file |-> NoFile, docs_file |-> NoFile]
    /\ indexing = [pc |-> "idle"]
    /\ reader = [pc |-> "idle"]
    /\ AdminIdle

ChunkNext ==
    \/ CreateChunks
    \/ \E n \in 1..MaxTextLen : Rechunk(n)

ChunkSpec == ChunkInit /\ [][ChunkNext]_vars

(***************************************************************************)
(* HybridRetriever.index_documents (rag.py 96-126) and FAISSVectorStore    *)
(* (vector_store.py 40-109, 142-167), with a call of retrieve made from    *)
(* another thread and the rebuild task of api/admin.py.                    *)
(* An embedding model is its dimension, an index its dimension and the     *)
(* texts whose embeddings it holds, a file its content or None.            *)
(***************************************************************************)
\* the calls of index_documents on one retriever
MaxIndexCalls == 2

\* the runs of the rebuild task
MaxRebuilds == 1

\* get_sentence_embedding_dimension() of all-MiniLM-L6-v2 and of mpnet
MiniLMDim == 384
MpnetDim == 768

\* n chunks of the file src
CorpusOf(src, n) == [i \in 1..n |-> Chunk([j \in 1..n |-> src], i)]

\* the corpora given to index_documents
IndexCorpora == {CorpusOf("a.pdf", 2), CorpusOf("b.pdf", 2), CorpusOf("b.pdf", 1)}

\* [doc.get('text', '') for doc in documents]
TextsOf(docs) == [i \in 1..Len(docs) |-> docs[i].text]

\* a FAISS index of dimension d over the embeddings of texts; faiss_index.bin
\* holds an index, documents.pkl a list of documents
Index(d, texts) == [kind |-> "index", d |-> d, vectors |-> texts]
DocsFile(docs) == [kind |-> "docs", documents |-> docs]

\* what chroma_db holds when the store is constructed: nothing, the files of
\* a MiniLM store, an index file that cannot be read, an index file alone
PersistedFiles ==
    {[index_file |-> NoFile, docs_file |-> NoFile],
     [index_file |-> [kind |-> "corrupt"], docs_file |-> DocsFile(CorpusOf("a.pdf", 2))],
     [index_file |-> Index(MiniLMDim, TextsOf(CorpusOf("a.pdf", 2))), docs_file |-> NoFile]}
    \cup
    {[index_file |-> Index(MiniLMDim, TextsOf(docs)), docs_file |-> DocsFile(docs)] :
        docs \in {CorpusOf("a.pdf", 2), CorpusOf("a.pdf", 1)}}

\* FAISSVectorStore.load
load(store, files) ==
    IF files.index_file # NoFile /\ files.docs_file # NoFile
    THEN IF files.index_file.kind = "corrupt" \/ files.docs_file.kind = "corrupt"
         THEN [store EXCEPT !.index = NoIndex, !.documents = <<>>]
         ELSE [store EXCEPT !.index = files.index_file, !.documents = files.docs_file.documents]
    ELSE store

\* FAISSVectorStore.save
save(store, files) ==
    IF store.index # NoIndex
    THEN [index_file |-> store.index, docs_file |-> DocsFile(store.documents)]
    ELSE files

\* FAISSVectorStore.__init__ that drops the index of the wrong dimension and
\* keeps the documents and the files
FAISSVectorStore_KeepsDocuments(files, has_faiss, model) ==
    IF ~has_faiss THEN [store |-> [model |-> NoModel, index |-> NoIndex, documents |-> <<>>], files |-> files]
    ELSE LET loaded == load([model |-> model, index |-> NoIndex, documents |-> <<>>], files)
         IN  IF loaded.index # NoIndex /\ model # NoModel /\ model # loaded.index.d
             THEN [store |-> [loaded EXCEPT !.index = NoIndex], files |-> files]
             ELSE [store |-> loaded, files |-> files]

\* FAISSVectorStore.__init__: the store, and the files it leaves in chroma_db
FAISSVectorStore(files, has_faiss, model) ==
    IF ~has_faiss THEN [store |-> [model |-> NoModel, index |-> NoIndex, documents |-> <<>>], files |-> files]
    ELSE LET loaded == load([model |-> model, index |-> NoIndex, documents |-> <<>>], files)
         IN  IF loaded.index # NoIndex /\ model # NoModel /\ model # loaded.index.d
             THEN [store |-> [loaded EXCEPT !.index = NoIndex, !.documents = <<>>],
                   files |-> [index_file |-> NoFile, docs_file |-> NoFile]]
             ELSE [store |-> loaded, files |-> files]

\* FAISSVectorStore.add_documents: the store and the files after the call
add_documents(store, files, docs) ==
    IF store.model = NoModel \/ docs = <<>> THEN [store |-> store, files |-> files]
    ELSE LET index == IF store.index = NoIndex THEN Index(store.model, <<>>)
                      ELSE store.index
             added == [store EXCEPT !.index = [index EXCEPT !.vectors = @ \o TextsOf(docs)],
                                    !.documents = @ \o docs]
         IN  [store |-> added, files |-> save(added, files)]

\* rag.py 110-124: the vector store part of index_documents
UpdateStore(store, files, docs) ==
    IF Len(store.documents) # Len(docs) /\ store.documents = <<>>
    THEN add_documents(store, files, docs)
    ELSE [store |-> store, files |-> files]

\* HybridRetriever.__init__ on the files found in chroma_db
NewRetriever(has_faiss, model) ==
    /\ indexing.pc = "new"
    /\ \E made \in {FAISSVectorStore(store_files, has_faiss, model)} :
          /\ vector_store' = made.store
          /\ store_files' = made.files
    /\ bm25' = [built |-> FALSE, corpus |-> <<>>]
    /\ documents' = <<>>
    /\ indexing' = [indexing EXCEPT !.pc = "idle"]
    /\ UNCHANGED <<kg_file, kg_data, query_expander, session_history, system_prompt_builder,
                   cache, sessions, user_profiles, metrics, tasks, now, clock_steps, qs,
                   unit_vars, voice_vars, admin_vars, c_in, c_out, reader>>

\* index_documents(docs), line 100: self.documents = documents
IndexAssign(docs) ==
    /\ indexing.pc = "idle"
    /\ indexing.calls < MaxIndexCalls
    /\ documents' = docs
    /\ indexing' = [indexing EXCEPT !.pc = "assigned", !.documents = docs, !.calls = @ + 1]
    /\ UNCHANGED <<kg_file, kg_data, bm25, query_expander, session_history, system_prompt_builder,
                   cache, sessions, user_profiles, metrics, tasks, now, clock_steps, qs,
                   unit_vars, voice_vars, admin_vars, c_in, c_out, vector_store, store_files, reader>>

\* lines 104-108: self.bm25 = BM25Okapi(tokenized_docs)
IndexBuild ==
    /\ indexing.pc = "assigned"
    /\ bm25' = [built |-> TRUE, corpus |-> indexing.documents]
    /\ indexing' = [indexing EXCEPT !.pc = "bm25"]
    /\ UNCHANGED <<kg_file, kg_data, documents, query_expander, session_history,
                   system_prompt_builder, cache, sessions, user_profiles, metrics, tasks, now,
                   clock_steps, qs, unit_vars, voice_vars, admin_vars, c_in, c_out, vector_store,
                   store_files, reader>>

\* lines 110-126: the vector store, and the return
IndexStore ==
    /\ indexing.pc = "bm25"
    /\ \E made \in {UpdateStore(vector_store, store_files, indexing.documents)} :
          /\ vector_store' = made.store
          /\ store_files' = made.files
    /\ indexing' = [indexing EXCEPT !.pc = "idle"]
    /\ UNCHANGED <<service_vars, unit_vars, voice_vars, admin_vars, c_in, c_out, reader>>

\* retrieve in another thread, lines 152-158: it tests and uses self.bm25
ReadBM25 ==
    /\ indexing.pc # "new"
    /\ reader.pc = "idle"
    /\ reader' = IF bm25.built THEN [pc |-> "scored", bm25 |-> bm25]
                 ELSE [pc |-> "returned", bm25 |-> bm25, documents |-> <<>>, raised |-> FALSE]
    /\ UNCHANGED <<service_vars, unit_vars, voice_vars, admin_vars, c_in, c_out, vector_store, store_files,
                   indexing>>

\* lines 183-187: it walks self.documents and takes bm25_scores[i] for each,
\* an IndexError when there are more documents than scores
ReadDocuments ==
    /\ reader.pc = "scored"
    /\ reader' = [pc |-> "returned", bm25 |-> reader.bm25, documents |-> documents,
                  raised |-> Len(documents) > Len(reader.bm25.corpus)]
    /\ UNCHANGED <<service_vars, unit_vars, voice_vars, admin_vars, c_in, c_out, vector_store, store_files,
                   indexing>>

\* query_stream has stored an answer (rag.py 740)
Answered ==
    /\ indexing.pc # "new"
    /\ cache = <<>>
    /\ cache' = CacheSet(cache, msg_fee, <<"generated answer">>, now)
    /\ UNCHANGED <<kg_file, kg_data, documents, bm25, query_expander, session_history,
                   system_prompt_builder, sessions, user_profiles, metrics, tasks, now,
                   clock_steps, qs, unit_vars, voice_vars, doc_vars>>

\* rebuild_task of api/admin.py (186-201): RAGService has no method
\* delete_all_documents, the AttributeError is caught and printed
RebuildTask ==
    /\ indexing.pc = "idle"
    /\ indexing.rebuilds < MaxRebuilds
    /\ indexing' = [indexing EXCEPT !.rebuilds = @ + 1]
    /\ UNCHANGED <<service_vars, unit_vars, voice_vars, admin_vars, c_in, c_out, vector_store, store_files,
                   reader>>

\* before HybridRetriever(): the files of chroma_db as an earlier run left
\* them; found keeps them for the properties
IndexInit ==
    /\ ServiceInit /\ documents = <<>>
    /\ UnitIdle /\ VoiceIdle
    /\ c_in = NoInput
    /\ c_out = <<>>
    /\ vector_store = [model |-> NoModel, index |-> NoIndex, documents |-> <<>>]
    /\ store_files \in PersistedFiles
    /\ indexing = [pc |-> "new", documents |-> <<>>, calls |-> 0, rebuilds |-> 0, found |-> store_files]
    /\ reader = [pc |-> "idle"]
    /\ AdminIdle

IndexNext ==
    \/ \E has_faiss \in BOOLEAN, model \in {NoModel, MiniLMDim, MpnetDim} : NewRetriever(has_faiss, model)
    \/ \E docs \in IndexCorpora : IndexAssign(docs)
    \/ IndexBuild
    \/ IndexStore
    \/ ReadBM25
    \/ ReadDocuments
    \/ Answered
    \/ RebuildTask

IndexSpec == IndexInit /\ [][IndexNext]_vars

(***************************************************************************)
(* FAISSVectorStore taken on its own (vector_store.py 77-109, 142-167):    *)
(* add_documents, save and load, a write of save that fails, and a restart *)
(* of the process on the files that are left.                              *)
(***************************************************************************)
\* the documents and the vectors a store is filled up to
MaxStoreDocs == 3

\* the vectors of the store's index
VectorCount(store) == IF store.index = NoIndex THEN 0 ELSE Len(store.index.vectors)

\* what the two writes of save can do: both succeed; faiss.write_index raises
\* and nothing is written; the index is written and then open() of
\* documents.pkl raises (or the process ends) and the old file stays; or
\* pickle.dump raises after open() has truncated the file
SaveOutcomes == {"ok", "index_raises", "open_raises", "dump_raises"}

\* FAISSVectorStore.save with the outcome of its writes (lines 148-154: the
\* exception is logged and the files stay as the writes have left them)
save_with(store, files, outcome) ==
    IF store.index = NoIndex \/ outcome = "index_raises" THEN files
    ELSE IF outcome = "open_raises" THEN [files EXCEPT !.index_file = store.index]
    ELSE IF outcome = "dump_raises"
    THEN [index_file |-> store.index, docs_file |-> [kind |-> "corrupt"]]
    ELSE save(store, files)

\* the store as FAISSVectorStore.__init__ makes it with the MiniLM model
NewStore(files) == FAISSVectorStore(files, TRUE, MiniLMDim)

\* add_documents(docs), whose save has the given outcome
StoreAdd(docs, outcome) ==
    /\ indexing.pc = "store"
    /\ Len(vector_store.documents) + Len(docs) <= MaxStoreDocs
    /\ VectorCount(vector_store) + Len(docs) <= MaxStoreDocs
    /\ \E r \in {add_documents(vector_store, store_files, docs)} :
          /\ vector_store' = r.store
          /\ store_files' = save_with(r.store, store_files, outcome)
    /\ UNCHANGED <<service_vars, unit_vars, voice_vars, admin_vars, c_in, c_out, indexing, reader>>

\* save()
StoreSave(outcome) ==
    /\ indexing.pc = "store"
    /\ store_files' = save_with(vector_store, store_files, outcome)
    /\ store_files' # store_files
    /\ UNCHANGED <<service_vars, unit_vars, voice_vars, admin_vars, c_in, c_out, vector_store,
                   indexing, reader>>

\* load()
StoreLoad ==
    /\ indexing.pc = "store"
    /\ vector_store' = load(vector_store, store_files)
    /\ vector_store' # vector_store
    /\ UNCHANGED <<service_vars, unit_vars, voice_vars, admin_vars, c_in, c_out, store_files,
                   indexing, reader>>

\* the process is started again: a new store on the files in chroma_db
StoreRestart ==
    /\ indexing.pc = "store"
    /\ \E made \in {NewStore(store_files)} :
          /\ vector_store' = made.store
          /\ store_files' = made.files
    /\ vector_store' # vector_store
    /\ UNCHANGED <<service_vars, unit_vars, voice_vars, admin_vars, c_in, c_out, indexing, reader>>

\* a new store in an empty chroma_db
StoreInit ==
    /\ ServiceInit /\ UnitIdle /\ VoiceIdle /\ AdminIdle
    /\ c_in = NoInput
    /\ c_out = <<>>
    /\ store_files = [index_file |-> NoFile, docs_file |-> NoFile]
    /\ vector_store = NewStore(store_files).store
    /\ indexing = [pc |-> "store"]
    /\ reader = [pc |-> "idle"]

StoreNext ==
    \/ \E docs \in IndexCorpora, outcome \in SaveOutcomes : StoreAdd(docs, outcome)
    \/ \E outcome \in SaveOutcomes : StoreSave(outcome)
    \/ StoreLoad
    \/ StoreRestart

StoreSpec == StoreInit /\ [][StoreNext]_vars

(***************************************************************************)
(* The admin endpoints on uploaded files (api/admin.py 154-178).           *)
(***************************************************************************)
MaxAdminCalls == 2

\* the file names the admin endpoints are called with: the two sources of
\* the corpus and a file that has no chunk in it
UploadNames == {"fees.txt", "faculty.txt", "notes.txt"}

\* rag_service.delete_documents_by_source(filename): RAGService (rag.py
\* 542-848) defines no such method, so the attribute lookup raises
delete_documents_by_source(docs, source) ==
    [raised |-> TRUE, documents |-> docs, deleted_chunks |-> 0]

\* the response of delete_file and what the call did, for stating properties:
\* whether it removed the file from disk, how many chunks it removed, and
\* the queries that had been received when it was called
DeleteResponse(filename, status, removed_file, deleted_chunks) ==
    [endpoint |-> "delete_file", filename |-> filename, status |-> status,
     removed_file |-> removed_file, deleted_chunks |-> deleted_chunks,
     received |-> {k \in QueryIds : qs[k].pc # "new"}]

\* DELETE /files/{filename}; os_remove is what os.remove does, "ok" or "raises"
delete_file(filename, os_remove) ==
    /\ Len(admin_calls) < MaxAdminCalls
    /\ IF filename \notin uploads
       THEN /\ admin_calls' = Append(admin_calls, DeleteResponse(filename, 404, FALSE, 0))
            /\ UNCHANGED <<uploads, documents>>
       ELSE IF os_remove = "raises"
       THEN /\ admin_calls' = Append(admin_calls, DeleteResponse(filename, 500, FALSE, 0))
            /\ UNCHANGED <<uploads, documents>>
       ELSE \E r \in {delete_documents_by_source(documents, filename)} :
            /\ uploads' = uploads \ {filename}
            /\ documents' = r.documents
            /\ admin_calls' = Append(admin_calls,
                                     IF r.raised
                                     THEN DeleteResponse(filename, 500, TRUE, r.deleted_chunks)
                                     ELSE DeleteResponse(filename, 200, TRUE, r.deleted_chunks))
    /\ UNCHANGED <<kg_file, kg_data, bm25, query_expander, session_history,
                   system_prompt_builder, cache, sessions, user_profiles, metrics, tasks,
                   now, clock_steps, qs>>
    /\ UNCHANGED <<unit_vars, voice_vars, c_in, c_out, vector_store, store_files, indexing, reader>>

DeleteFile == \E filename \in UploadNames, os_remove \in {"ok", "raises"} : delete_file(filename, os_remove)

\* a query of a service without a model client, answered from the top chunk
AdminQuery ==
    \E i \in QueryIds, message \in {msg_fee, msg_hod} : Start(i, message, None, "nothing", NoneT)

\* a service that has loaded the corpus, and any of the files in the upload directory
AdminInit ==
    /\ ServiceInit /\ documents = Corpus
    /\ UnitIdle /\ VoiceIdle /\ DocIdle
    /\ uploads \in SUBSET UploadNames
    /\ admin_calls = <<>>

AdminNext == DeleteFile \/ AdminQuery

AdminSpec == AdminInit /\ [][AdminNext]_vars

(***************************************************************************)
(* Properties.                                                             *)
(***************************************************************************)
\* query i has yielded its event
Emitted(i) == qs[i].pc \in {"yielded", "done"}

\* query i made the call named op
Did(i, op) == \E n \in 1..Len(qs[i].ops) : qs[i].ops[n] = op

\* t ends with the non-empty text piece
EndsWith(t, piece) ==
    /\ piece # <<>>
    /\ Len(t) >= Len(piece)
    /\ SubSeq(t, Len(t) - Len(piece) + 1, Len(t)) = piece

\* the answer carries text taken from the top-ranked retrieved chunk: its raw
\* text, or what the HOD or fee pattern extracts from it
DerivedFromTop(answer, docs) ==
    LET text == docs[1].document.text
    IN  \E piece \in {Slice(text, 500), hod_search(text), Slice(fee_search(text), 100)} \ {NoneT} :
            EndsWith(answer, piece)

\* C1: every query_stream call emits nothing before it responds and exactly
\* one event, an answer or an error, once it has responded, on every path.
C1_ExactlyOneTerminalEvent ==
    \A i \in QueryIds :
        /\ qs[i].pc \in {"new", "wait_llm"} => qs[i].events = <<>>
        /\ Emitted(i) => /\ Len(qs[i].events) = 1
                         /\ qs[i].events[1].type \in {"answer", "error"}

\* one call has ended with the error event of a failed retrieval and another
\* with the answer of a timed-out generation
C1_Witness ==
    \E i, j \in QueryIds :
        /\ qs[i].pc = "done" /\ qs[i].path = "exception" /\ qs[i].events[1].type = "error"
        /\ qs[j].pc = "done" /\ qs[j].path = "timeout" /\ qs[j].events[1].type = "answer"

\* C2: a query waiting for the generation call eventually emits its event,
\* whether or not the call ever returns: the timer of wait_for fires.
C2_TimeoutLeadsToResponse ==
    \A i \in QueryIds : (qs[i].pc = "wait_llm") ~> (Len(qs[i].events) = 1)

\* a query has responded through the timeout branch
C2_Witness ==
    \E i \in QueryIds : Emitted(i) /\ qs[i].path = "timeout" /\ Did(i, "llm_call")

\* C3 as stated: after a timeout or a provider error, with at least one
\* retrieved chunk, the event is an answer built from the top chunk's text.
C3_FallbackOnTimeoutOrError ==
    \A i \in QueryIds :
        (Emitted(i) /\ qs[i].path \in {"timeout", "provider_error"} /\ qs[i].retrieved_docs # <<>>)
            => /\ qs[i].events[1].type = "answer"
               /\ DerivedFromTop(qs[i].events[1].answer, qs[i].retrieved_docs)

\* C3 as amended: a provider error, with at least one retrieved chunk, is
\* answered from the top chunk's text; a timeout is answered with the fixed
\* delay message (followed by the request for rank and interests on a branch
\* query); neither emits an error event.
C3_FallbackOnErrorDelayOnTimeout ==
    \A i \in QueryIds :
        (Emitted(i) /\ qs[i].retrieved_docs # <<>>)
            => /\ qs[i].path = "provider_error"
                    => /\ qs[i].events[1].type = "answer"
                       /\ DerivedFromTop(qs[i].events[1].answer, qs[i].retrieved_docs)
               /\ qs[i].path = "timeout"
                    => /\ qs[i].events[1].type = "answer"
                       /\ qs[i].events[1].answer \in {TimeoutAnswer, TimeoutAnswer \o additional_prompt}

\* a provider error answered with the HOD extracted from the top chunk, and
\* a timeout answered while chunks had been retrieved
C3_Witness ==
    \E i, j \in QueryIds :
        /\ Emitted(i) /\ qs[i].path = "provider_error"
        /\ qs[i].events[1].answer = <<"The HOD is ", "Asha Rao">>
        /\ Emitted(j) /\ qs[j].path = "timeout" /\ qs[j].retrieved_docs # <<>>

\* C4, for the absent and the failing client: with no documents indexed a
\* query that reaches retrieval retrieves nothing and ends with an answer
\* event whose text is not empty.
C4_NoDocumentsExplained ==
    \A i \in QueryIds :
        (Emitted(i) /\ ~bm25.built /\ qs[i].path \in {"no_client", "provider_error", "timeout"})
            => /\ qs[i].retrieved_docs = <<>>
               /\ qs[i].events[1].type = "answer"
               /\ qs[i].events[1].answer # <<>>

\* C6: with a knowledge graph on disk that has a fee table, every query that
\* is no greeting and contains a fee keyword is answered by the lookup with
\* the Official Fee Structure text, without retrieval.
C6_FeeQueriesAnsweredByLookup ==
    (kg_file # None /\ Truthy(FileContent(kg_file).fees_raw))
        => \A i \in QueryIds :
             (Emitted(i) /\ ~IsGreeting(qs[i].message)
                /\ ContainsAny(fee_intent_words, Lower(qs[i].query_to_use)))
                => /\ qs[i].path = "lookup"
                   /\ qs[i].events[1].answer = FeeAnswer(FileContent(kg_file))
                   /\ ~Did(i, "retrieve")

\* the text query i put into the cache: its answer without the request for
\* rank and interests, which is appended after the cache write
StoredText(i) ==
    LET a == qs[i].events[1].answer
    IN  IF EndsWith(a, additional_prompt) THEN SubSeq(a, 1, Len(a) - Len(additional_prompt)) ELSE a

SameNormalizedQuery(i, j) ==
    Strip(Lower(qs[i].query_to_use)) = Strip(Lower(qs[j].query_to_use))

\* no third query overlaps the pair i, j
Isolated(i, j) ==
    \A k \in QueryIds \ {i, j} :
        qs[k].pc = "new" \/ k \in qs[i].answered_before \/ j \in qs[k].answered_before

C8_OnlySuccessfulAnswersCached ==
    /\ \A p \in 1..Len(cache) : cache[p].answer # TimeoutAnswer
    /\ \A i \in QueryIds : qs[i].path \in {"timeout", "provider_error"} => ~Did(i, "cache_set")

\* C9: the step that receives a greeting yields the canned answer, makes no
\* call of the pipeline and leaves cache, conversation store, analytics log,
\* expansion history and background tasks as they were.
C9_GreetingTouchesNothing ==
    [][\A i \in QueryIds :
         (qs[i].pc = "new" /\ qs'[i].pc # "new" /\ IsGreeting(qs'[i].message))
            => /\ qs'[i].pc = "yielded"
               /\ qs'[i].events = <<AnswerEvent(GreetingAnswer, <<>>, qs'[i].message)>>
               /\ qs'[i].ops = <<>>
               /\ UNCHANGED <<cache, sessions, user_profiles, metrics, tasks, session_history>>]_vars

\* a greeting of session s1 answered after an earlier query had filled the
\* cache, the conversation store and the analytics log
C9_Witness ==
    \E i \in QueryIds :
        /\ Emitted(i) /\ qs[i].path = "greeting" /\ qs[i].session_id = "s1"
        /\ cache # <<>> /\ metrics # <<>> /\ "s1" \in DOMAIN sessions

\* C10: the interactions stored for session s1 are exactly those of the
\* queries of s1 that ended with an answer event, one each.
C10_EveryAnswerRecorded ==
    LET answered == {i \in QueryIds : Emitted(i) /\ qs[i].session_id = "s1"
                                        /\ qs[i].events[1].type = "answer"}
        stored == IF "s1" \in DOMAIN sessions THEN sessions["s1"] ELSE <<>>
    IN  /\ Len(stored) = Cardinality(answered)
        /\ \A i \in answered :
              \E n \in 1..Len(stored) :
                 stored[n] = [user_message |-> qs[i].message, bot_response |-> qs[i].events[1].answer]

\* C11: the interactions stored for session s1 are in the order in which
\* the queries of s1 were received (the order of the query ids), also when
\* a later query's model call completes before an earlier one's.
C11_InteractionsInReceiptOrder ==
    LET recorded == {i \in QueryIds : qs[i].session_id = "s1" /\ Did(i, "add_interaction")}
        stored == IF "s1" \in DOMAIN sessions THEN sessions["s1"] ELSE <<>>
    IN  \A i, j \in recorded :
            i < j => \E m, n \in 1..Len(stored) :
                        /\ m < n
                        /\ stored[m].user_message = qs[i].message
                        /\ stored[n].user_message = qs[j].message

\* C12: once the socket of a voice session has closed, the session has no
\* interactions and no profile in either ConversationMemory instance nor in
\* the two files they save to.
C12_ClosedSessionLeavesNothing ==
    \A session_id \in DOMAIN sockets :
        sockets[session_id] = "closed"
            => /\ session_id \notin DOMAIN voice_sessions
               /\ session_id \notin DOMAIN voice_profiles
               /\ session_id \notin DOMAIN sessions
               /\ session_id \notin DOMAIN user_profiles
               /\ session_id \notin DOMAIN memory_file
               /\ session_id \notin DOMAIN profile_file

\* position of the chunk of a result in the corpus of r_in
IndexOf(result) == CHOOSE i \in 1..Len(r_in.documents) : r_in.documents[i] = result.document

\* the chunks of the corpus that a returned list leaves out
LeftOut(res) == {i \in 1..Len(r_in.documents) : \A n \in 1..Len(res) : res[n].document # r_in.documents[i]}

\* C13: no list returned by retrieve holds more than two results of the
\* same source.
C13_AtMostTwoPerSource ==
    \A c \in 1..Len(r_out) :
        \A src \in Sources :
            Cardinality({n \in 1..Len(r_out[c]) : r_out[c][n].document.source = src}) <= 2

\* a call with k = 3 on three chunks of one file returned two of them
C13_Witness ==
    /\ Len(r_out) >= 1 /\ r_in.built /\ r_in.k = 3
    /\ \A i \in 1..CorpusSize : r_in.documents[i].source = "a.pdf"
    /\ Len(r_out[1]) = 2

\* C14: a list returned by retrieve has at most k results, and fewer than k
\* only if every chunk it leaves out comes from a source that already has
\* two results in the list.
C14_AtMostKResults ==
    \A c \in 1..Len(r_out) :
        /\ Len(r_out[c]) <= r_in.k
        /\ Len(r_out[c]) < r_in.k
              => \A i \in LeftOut(r_out[c]) :
                    CountSource(r_out[c], r_in.documents[i].source) >= 2

\* C15, for the calls with k of at least 1: a chunk that holds no term of
\* the query has lexical score 0 and is in no list returned for the query.
C15_NoOverlapExcluded ==
    \A c \in 1..Len(r_out) :
        \A i \in 1..Len(r_in.documents) :
            (r_in.k >= 1 /\ r_in.shared[i] = 0)
                => /\ get_scores(r_in.shared)[i] = 0
                   /\ i \in LeftOut(r_out[c])

\* C16, for the calls with k of at least 1: the fused score of every result
\* is 0.4 times the normalized lexical score plus 0.6 times the normalized
\* semantic score of its chunk (kept times ten, as hybrid_score is).
C16_FusedScoreOfNormalized ==
    \A c \in 1..Len(r_out) :
        LET sem == vector_search(r_in.documents, r_in.similarity, r_in.store_ready, r_in.k * 2)
            norm_lexical == _normalize_scores(get_scores(r_in.shared))
            norm_semantic == _normalize_scores(
                [i \in 1..Len(r_in.documents) |->
                    SemanticScoreOf(sem, Slice(r_in.documents[i].text, 50))])
        IN  \A n \in 1..Len(r_out[c]) :
                r_in.k >= 1 =>
                  r_out[c][n].hybrid_score
                    = 4 * norm_lexical[IndexOf(r_out[c][n])] + 6 * norm_semantic[IndexOf(r_out[c][n])]

StepOf(op) ==
    /\ Len(cache_calls') = Len(cache_calls) + 1
    /\ cache_calls'[Len(cache_calls')].op = op

LastCall == cache_calls'[Len(cache_calls')]

\* C18: a get that follows a set at once, with a query that equals the
\* query of the set after lower-casing and trimming, returns the answer of
\* the set, whatever the cache held before.
C18_SetThenGet ==
    \A n \in 1..(Len(cache_calls) - 1) :
        LET s == cache_calls[n]
            g == cache_calls[n + 1]
        IN  (/\ s.op = "set" /\ g.op = "get" /\ g.at = s.at
             /\ Strip(Lower(g.query)) = Strip(Lower(s.query)))
                => g.value = s.answer

\* on a cache at capacity, set("Fee ") evicted an entry and get("fee")
\* returned the answer
C18_Witness ==
    /\ Len(cache_calls) = 2 /\ Len(cache) = max_size
    /\ CachePos(cache, IntToStr(1)) = 0
    /\ cache_calls[1].op = "set" /\ cache_calls[1].query = msg_Fee_sp
    /\ cache_calls[2].op = "get" /\ cache_calls[2].query = msg_fee
    /\ cache_calls[2].value = cache_calls[1].answer

\* C19: set stamps its entry with the time of the call; a get that finds the
\* entry of its query returns the stored answer and leaves the cache alone
\* while less than ttl_seconds have passed since that time, and from then on
\* returns none and removes that entry and no other; a step in which only
\* time passes leaves the cache as it is.
C19_LazyExpiry ==
    [][ /\ StepOf("set")
           => \E p \in {CachePos(cache', Strip(Lower(LastCall.query)))} :
                  p # 0 /\ cache'[p].timestamp = now /\ cache'[p].answer = LastCall.answer
        /\ StepOf("get")
           => \E p \in {CachePos(cache, Strip(Lower(LastCall.query)))} :
                  /\ (p # 0 /\ now - cache[p].timestamp < ttl_seconds)
                        => LastCall.value = cache[p].answer /\ cache' = cache
                  /\ (p # 0 /\ now - cache[p].timestamp >= ttl_seconds)
                        => LastCall.value = NoneT /\ cache' = RemoveAt(cache, p)
                  /\ p = 0 => LastCall.value = NoneT /\ cache' = cache
        /\ now' # now => cache' = cache
      ]_vars

\* set("fee"), then a get one second before the time-to-live had passed that
\* returned the answer, then a get one second later that returned none and
\* removed the entry
C19_Witness ==
    /\ Len(cache_calls) = 3
    /\ cache_calls[1].op = "set" /\ cache_calls[1].query = msg_fee
    /\ cache_calls[2].op = "get" /\ cache_calls[2].at = cache_calls[1].at + ttl_seconds - 1
    /\ cache_calls[2].value = cache_calls[1].answer
    /\ cache_calls[3].op = "get" /\ cache_calls[3].at = cache_calls[1].at + ttl_seconds
    /\ cache_calls[3].query = msg_Fee_sp /\ cache_calls[3].value = NoneT
    /\ CachePos(cache, msg_fee) = 0

\* what C20 says of set: a set of a new key on max_size entries removes one
\* entry, of least timestamp, and appends its own; a set of a key that is
\* present rewrites that entry in place and leaves every other entry
SetEvictsOldest ==
    StepOf("set")
       => \E p \in {CachePos(cache, Strip(Lower(LastCall.query)))} :
              /\ (p = 0 /\ Len(cache) = max_size)
                    => \E o \in 1..Len(cache) :
                          /\ \A j \in 1..Len(cache) : cache[o].timestamp <= cache[j].timestamp
                          /\ Len(cache') = max_size
                          /\ SubSeq(cache', 1, max_size - 1) = RemoveAt(cache, o)
                          /\ cache'[max_size].answer = LastCall.answer
              /\ p # 0
                    => /\ Len(cache') = Len(cache)
                       /\ \A j \in 1..Len(cache) : j # p => cache'[j] = cache[j]
                       /\ cache'[p].answer = LastCall.answer

\* C20 as stated: set evicts as above, and after a get the entry that
\* would be evicted next is the one that would have been evicted before.
C20_GetKeepsEvictionOrder ==
    [][ /\ SetEvictsOldest
        /\ (StepOf("get") /\ cache # <<>>)
              => /\ cache' # <<>>
                 /\ cache'[OldestPos(cache')] = cache[OldestPos(cache)]
      ]_vars

\* C20, amended: set evicts as above, and after a get the entry that would
\* be evicted next is the one that would have been evicted before, unless
\* the get was a read of that very entry after its time-to-live, which
\* removes it.
C20_GetKeepsEvictionOrderUnlessExpired ==
    [][ /\ SetEvictsOldest
        /\ (StepOf("get") /\ cache # <<>>)
              => \E o \in {OldestPos(cache)} :
                    \/ /\ cache' # <<>>
                       /\ cache'[OldestPos(cache')] = cache[o]
                    \/ /\ cache[o].key = Strip(Lower(LastCall.query))
                       /\ now - cache[o].timestamp >= ttl_seconds
                       /\ cache' = RemoveAt(cache, o)
      ]_vars

\* a cache of max_size entries whose oldest entry was the seventh: set("fee")
\* evicted that entry, then a get of a query of the cache left the rest alone
C20_Witness ==
    /\ Len(cache_calls) = 2 /\ Len(cache) = max_size
    /\ cache_calls[1].op = "set" /\ cache_calls[1].query = msg_fee
    /\ cache_calls[2].op = "get" /\ cache_calls[2].value # NoneT
    /\ CachePos(cache, IntToStr(7)) = 0
    /\ cache[1].key = IntToStr(1) /\ cache[max_size].key = msg_fee

\* C21: whatever calls of get, set and clear have been made, the cache holds
\* at most max_size entries.
C21_NeverMoreThanMaxSize == Len(cache) <= max_size

\* a cache of max_size entries, as the hit of the first call shows, took a
\* new key and was written again under another spelling of it: it holds
\* max_size entries
C21_Witness ==
    /\ Len(cache_calls) = 3 /\ Len(cache) = max_size
    /\ cache_calls[1].op = "get" /\ cache_calls[1].value = <<"stored">>
    /\ cache_calls[2].op = "set" /\ cache_calls[2].query = msg_fee
    /\ cache_calls[3].op = "set" /\ cache_calls[3].query = msg_Fee_sp
    /\ cache[max_size].key = msg_fee /\ cache[max_size].query = msg_Fee_sp

\* query j leaves the generation step in this step
Generates(j) ==
    /\ qs[j].pc = "wait_llm"
    /\ qs'[j].pc = "yielded" /\ qs'[j].path \in {"generated", "timeout"}

\* C22: when a query leaves the generation step less than a second after
\* another query with the same text, which had missed the cache as well, has
\* left it and written its answer, it writes nothing: the cache stays as it
\* is and holds the answer of the first.
C22_SecondWriteSuppressed ==
    [][\A i, j \in QueryIds :
         (/\ i # j /\ Generates(j)
          /\ Emitted(i) /\ qs[i].path \in {"generated", "timeout"} /\ Did(i, "llm_call")
          /\ qs[i].query_to_use = qs[j].query_to_use
          /\ now - qs[i].answered_at < 1)
            => /\ cache' = cache
               /\ \A n \in 1..Len(qs'[j].ops) : qs'[j].ops[n] # "cache_set"
               /\ \E p \in {CachePos(cache', _hash_query(qs[i].query_to_use))} :
                     p # 0 /\ cache'[p].answer = StoredText(i)]_vars

\* two queries "fee" were in the generation step together; the first came
\* back with a text and wrote it, the second timed out within the same
\* second and wrote nothing
C22_Witness ==
    \E i, j \in QueryIds :
        /\ i # j /\ Emitted(i) /\ Emitted(j)
        /\ qs[i].message = msg_fee /\ qs[j].message = msg_fee
        /\ j \notin qs[i].answered_before /\ i \notin qs[j].answered_before
        /\ qs[i].path = "generated" /\ qs[j].path = "timeout"
        /\ qs[i].answered_at = qs[j].answered_at
        /\ Did(i, "cache_set") /\ ~Did(j, "cache_set")
        /\ \E p \in 1..Len(cache) : cache[p].key = msg_fee /\ cache[p].answer = <<"generated answer">>

\* the chunks that call c of _create_chunks returned
ChunksOf(c) == c_out[c].result.chunks

\* C23: no call of _create_chunks returns a chunk without characters.
C23_NoEmptyChunk ==
    \A c \in 1..Len(c_out) :
        \A n \in 1..Len(ChunksOf(c)) : ChunksOf(c)[n].text # <<>>

\* the pieces that the hard split made of sentence k of the text
PiecesOf(k) == SelectSeq(ChunksOf(1), LAMBDA ch : ch.hard /\ ch.sentence = k)

\* C24: _create_chunks returns without raising, and of every sentence longer
\* than chunk_size the hard split makes pieces whose start offsets increase
\* and which together hold every character of the sentence.
C24_ReturnsAndSplitCovers ==
    Len(c_out) >= 1 =>
        /\ ~c_out[1].result.raised
        /\ LET sentences == _split_into_sentences(c_in.text)
           IN  \A k \in 1..Len(sentences) :
                 Len(sentences[k]) > c_in.chunk_size =>
                    /\ \A m \in 1..(Len(PiecesOf(k)) - 1) :
                          PiecesOf(k)[m].offset < PiecesOf(k)[m + 1].offset
                    /\ \A x \in 1..Len(sentences[k]) :
                          \E m \in 1..Len(PiecesOf(k)) :
                             LET p == PiecesOf(k)[m]
                             IN  /\ p.offset < x /\ x <= p.offset + Len(p.text)
                                 /\ p.text[x - p.offset] = sentences[k][x]

\* C25: a chunk made of whole sentences is at most chunk_size long, plus the
\* sentence it took over from the chunk before and the blank that joins it;
\* a piece of an oversized sentence is at most chunk_size long.
C25_ChunkLengthBounded ==
    \A c \in 1..Len(c_out) :
        \A n \in 1..Len(ChunksOf(c)) :
            LET ch == ChunksOf(c)[n]
            IN  IF ch.hard THEN Len(ch.text) <= c_in.chunk_size
                ELSE Len(ch.text) <= c_in.chunk_size + (IF ch.carried > 0 THEN ch.carried + 1 ELSE 0)

\* chunk_size 3 and chunk_overlap 1 on a text like "a. a. a": the second
\* chunk is five characters long, two of them taken over from the first
C25_Witness ==
    /\ Len(c_out) >= 1 /\ c_in.chunk_size = 3 /\ c_in.chunk_overlap = 1
    /\ Len(ChunksOf(1)) = 3
    /\ Len(ChunksOf(1)[2].text) = 5 /\ ChunksOf(1)[2].carried = 2
    /\ ~ChunksOf(1)[3].hard

\* C26: _create_chunks on a chunk of its own result returns that chunk and
\* nothing else.
C26_RechunkIsIdentity ==
    \A c \in 2..Len(c_out) :
        /\ ~c_out[c].result.raised
        /\ Len(ChunksOf(c)) = 1
        /\ ChunksOf(c)[1].text = ChunksOf(1)[c_out[c].of].text

\* a call of index_documents has returned and none is under way
Indexed == indexing.pc = "idle" /\ indexing.calls >= 1

\* C27: once index_documents(D) has returned on a retriever that has an
\* embedding model, the BM25 index is built from D and the vector store holds
\* the documents D and their embeddings, whatever it held before.
C27_BothIndexesHoldTheCorpus ==
    (Indexed /\ vector_store.model # NoModel) =>
        /\ documents = indexing.documents
        /\ bm25 = [built |-> TRUE, corpus |-> indexing.documents]
        /\ vector_store.documents = indexing.documents
        /\ vector_store.index # NoIndex
        /\ vector_store.index.vectors = TextsOf(indexing.documents)

\* C28: a call of retrieve that has run while index_documents ran has used
\* a BM25 index and a chunk list of one corpus, and has not failed on them.
C28_ReaderSeesOneCorpus ==
    (reader.pc = "returned" /\ reader.bm25.built) =>
        /\ reader.bm25.corpus = reader.documents
        /\ ~reader.raised

\* C29: the step that ends a re-indexing, the return of index_documents or
\* a run of the rebuild task, leaves the cache empty.
C29_RebuildClearsCache ==
    [][(\/ indexing.pc = "bm25" /\ indexing'.pc = "idle"
        \/ indexing'.rebuilds = indexing.rebuilds + 1)
          => cache' = <<>>]_vars

\* the store was constructed with a model on the files of an index of
\* another dimension
DimensionMismatch ==
    /\ indexing.pc # "new"
    /\ indexing.found.index_file.kind = "index" /\ indexing.found.docs_file # NoFile
    /\ vector_store.model # NoModel
    /\ indexing.found.index_file.d # vector_store.model

\* C30: a store constructed on an index of another dimension than its
\* model's has no index and no documents, and both files are gone, until
\* index_documents is called; when the first call has returned, the store
\* holds the documents of the call with an index of the model's dimension
\* over all of them; and at no time does it hold an index of a dimension
\* that is not its model's.
C30_MismatchResetsTheStore ==
    DimensionMismatch =>
        /\ indexing.calls = 0
              => /\ vector_store.index = NoIndex /\ vector_store.documents = <<>>
                 /\ store_files = [index_file |-> NoFile, docs_file |-> NoFile]
        /\ (indexing.calls = 1 /\ indexing.pc = "idle")
              => /\ vector_store.documents = indexing.documents
                 /\ vector_store.index = Index(vector_store.model, TextsOf(indexing.documents))
                 /\ store_files = [index_file |-> vector_store.index,
                                   docs_file |-> DocsFile(indexing.documents)]
        /\ vector_store.index # NoIndex => vector_store.index.d = vector_store.model

\* an mpnet store constructed on the files of a MiniLM index of two chunks
\* has indexed the one chunk of b.pdf
C30_Witness ==
    /\ DimensionMismatch /\ vector_store.model = MpnetDim
    /\ Len(indexing.found.docs_file.documents) = 2
    /\ indexing.calls = 1 /\ indexing.pc = "idle"
    /\ vector_store.documents = CorpusOf("b.pdf", 1)

(***************************************************************************)
(* Query expansion and session history.                                    *)
(***************************************************************************)
\* query k went through the pipeline of query_stream in the session of
\* query i, and had been answered when query i was received
EarlierInSession(i, k) ==
    /\ k \in qs[i].answered_before
    /\ qs[k].path # "greeting"
    /\ SessionKey(qs[k].session_id) = SessionKey(qs[i].session_id)

\* C31: a query of fewer than 4 tokens that reaches the expander of a
\* service with a model client, in a session that has issued an earlier
\* query, makes the expansion call; a query of 4 or more tokens, or one
\* without an earlier query of its session, never makes it.
C31_ShortFollowUpIsExpanded ==
    \A i \in QueryIds :
        /\ (/\ Did(i, "expand_query")
            /\ WordCount(qs[i].message) < 4
            /\ \E k \in QueryIds : EarlierInSession(i, k))
           => Did(i, "expansion_call")
        /\ Did(i, "expansion_call")
           => /\ WordCount(qs[i].message) < 4
              /\ \E k \in QueryIds : EarlierInSession(i, k)

(***************************************************************************)
(* Deleting an uploaded file.                                              *)
(***************************************************************************)
\* the sources of the chunks retrieve returned to query i
SourcesRetrieved(i) ==
    {qs[i].retrieved_docs[n].document.source : n \in 1..Len(qs[i].retrieved_docs)}

\* C32: a delete_file(filename) that succeeds leaves no chunk of the file in
\* the knowledge base, so no query received after it retrieves a chunk
\* whose source is the file; a delete_file that fails has removed neither
\* the file from disk nor a chunk from the corpus.
C32_DeleteRemovesChunksOrNothing ==
    \A n \in 1..Len(admin_calls) :
        LET r == admin_calls[n]
        IN  /\ r.status = 200
               => \A i \in QueryIds :
                      (qs[i].pc # "new" /\ i \notin r.received) => r.filename \notin SourcesRetrieved(i)
            /\ r.status # 200 => (~r.removed_file /\ r.deleted_chunks = 0)

(***************************************************************************)
(* The voice turn and its text-to-speech call.                             *)
(***************************************************************************)
\* the handler waits for nothing and the last message it sent is an answer
AnswerSent ==
    /\ pending_tts.pc = "idle"
    /\ sent # <<>>
    /\ sent[Len(sent)].type = "answer"

\* C33: a transcript whose answer text is ready and whose text-to-speech
\* call is under way is eventually answered, whether or not the provider
\* responds.
C33_TranscriptLeadsToAnswer == (pending_tts.pc = "wait") ~> AnswerSent

(***************************************************************************)
(* The semantic score of a chunk outside the candidate set.                *)
(***************************************************************************)
\* the chunks that vector_store.search(query, 2k) returned to retrieve
Candidates ==
    LET semantic_results == vector_search(r_in.documents, r_in.similarity, r_in.store_ready, r_in.k * 2)
    IN  {semantic_results[n].doc : n \in 1..Len(semantic_results)}

\* C34: every result of retrieve whose chunk is not among the 2k candidates
\* of the vector search has semantic score 0.
C34_OutsideCandidatesScoresZero ==
    \A c \in 1..Len(r_out) :
        \A n \in 1..Len(r_out[c]) :
            r_out[c][n].document \notin Candidates => r_out[c][n].semantic_score = 0

(***************************************************************************)
(* The overlap of adjacent chunks.                                         *)
(***************************************************************************)
\* chunk l begins with the last sentence of chunk e, carried forward
SharesSentence(e, l) ==
    /\ l.carried > 0
    /\ l.carried <= Len(e.text)
    /\ SubSeq(l.text, 1, l.carried) = SubSeq(e.text, Len(e.text) - l.carried + 1, Len(e.text))

\* piece l begins with the last n characters of piece e, or is, when it is
\* shorter than n, the end of piece e
SharesCharacters(e, l, n) ==
    LET m == Min(n, Len(l.text))
    IN  /\ m <= Len(e.text)
        /\ SubSeq(l.text, 1, m) = SubSeq(e.text, Len(e.text) - m + 1, Len(e.text))

\* C35: with an overlap below the chunk size, of every two adjacent chunks
\* of a text the later one begins with the last sentence of the earlier
\* one, or, both being pieces of one hard-split sentence, with the last
\* chunk_overlap characters of the earlier piece.  (An empty earlier chunk
\* is left aside.)
C35_AdjacentChunksOverlap ==
    (Len(c_out) >= 1 /\ c_in.chunk_overlap < c_in.chunk_size /\ ~c_out[1].result.raised)
    => \A n \in 1..(Len(ChunksOf(1)) - 1) :
           LET e == ChunksOf(1)[n]
               l == ChunksOf(1)[n + 1]
           IN  e.text # <<>>
               => IF e.hard /\ l.hard /\ e.sentence = l.sentence
                  THEN SharesCharacters(e, l, c_in.chunk_overlap)
                  ELSE SharesSentence(e, l)

(***************************************************************************)
(* The vector store and its two files.                                     *)
(***************************************************************************)
\* C36: whatever add_documents, save, load and restarts have done, and
\* whichever writes of save have failed, the store holds as many vectors as
\* documents, and without an index it holds no documents.
C36_IndexAndDocumentsArePaired ==
    IF vector_store.index = NoIndex
    THEN vector_store.documents = <<>>
    ELSE Len(vector_store.index.vectors) = Len(vector_store.documents)

(***************************************************************************)
(* The capacity of the response cache.                                     *)
(***************************************************************************)
\* the queries whose answer query_stream has stored in the cache
StoredQueries ==
    {cache_calls[k].query : k \in 1..Len(cache_calls)}
    \cup {qs[i].query_to_use : i \in {j \in QueryIds : Did(j, "cache_set")}}

\* C37: as long as the answers of at most max_size distinct queries have
\* been stored through query_stream, and none is older than the
\* time-to-live, the cache holds the answer of each of them.
C37_HoldsMaxSizeAnswers ==
    (/\ Cardinality({_hash_query(q) : q \in StoredQueries}) <= max_size
     /\ now < ttl_seconds)
    => \A q \in StoredQueries : CachePos(cache, _hash_query(q)) # 0

(***************************************************************************)
(* The request for rank and interests on branch-availability answers.      *)
(***************************************************************************)
\* query i is a branch-availability query of a session whose profile lacks
\* the rank or the interests, answered by the service with a model client
\* from the generation step or from the cache
BranchAnswerOwingRequest(i) ==
    /\ Emitted(i)
    /\ qs[i].path \in {"generated", "timeout", "cache_hit"}
    /\ is_branch_query(qs[i].message)
    /\ (Contains(kw_available, Lower(qs[i].query_to_use)) \/ Contains(kw_branches, Lower(qs[i].query_to_use)))
    /\ LET user_profile == get_user_profile(SessionKey(qs[i].session_id))
       IN  \/ "wbjee_rank" \notin DOMAIN user_profile
           \/ "interests" \notin DOMAIN user_profile

\* C38: every such answer ends with the request to share rank and
\* interests, and two such answers to the same message of one session carry
\* the same text when the later one is served from the cache.
C38_BranchAnswerAsksForProfile ==
    \A i \in QueryIds :
        BranchAnswerOwingRequest(i)
        => /\ EndsWith(qs[i].events[1].answer, additional_prompt)
           /\ \A j \in QueryIds :
                  (/\ BranchAnswerOwingRequest(j)
                   /\ i \in qs[j].answered_before
                   /\ qs[j].path = "cache_hit"
                   /\ qs[j].message = qs[i].message
                   /\ qs[j].session_id = qs[i].session_id)
                  => qs[j].events[1].answer = qs[i].events[1].answer

(***************************************************************************)
(* The cache and the profiles of the sessions.                             *)
(***************************************************************************)
\* query j was answered from the cache with the text that query i stored
ServedFrom(j, i) ==
    /\ Emitted(j) /\ qs[j].path = "cache_hit"
    /\ i \in qs[j].answered_before
    /\ Did(i, "cache_set")
    /\ _hash_query(qs[i].query_to_use) = _hash_query(qs[j].query_to_use)
    /\ \A k \in QueryIds \ {i, j} :
           ~(/\ k \in qs[j].answered_before /\ i \in qs[k].answered_before
             /\ Did(k, "cache_set")
             /\ _hash_query(qs[k].query_to_use) = _hash_query(qs[j].query_to_use))

\* C39: an answer generated with the rank or the interests of a session in
\* the system prompt is served from the cache to that session only.
C39_ProfiledAnswerStaysInSession ==
    \A i, j \in QueryIds :
        (ServedFrom(j, i) /\ HasUserContext(qs[i].prompt_profile))
        => qs[j].session_id = qs[i].session_id

(***************************************************************************)
(* Greetings as whole words.                                               *)
(***************************************************************************)
\* w occurs in s as a whole word or phrase: between the ends of s,
\* whitespace or punctuation
ContainsWord(w, s) ==
    \E i \in 0..(Len(s) - Len(w)) :
        /\ \A j \in 1..Len(w) : s[i + j] = w[j]
        /\ (i = 0 \/ s[i] \in Whitespace \cup {",", ".", "!", "?"})
        /\ (i + Len(w) = Len(s) \/ s[i + Len(w) + 1] \in Whitespace \cup {",", ".", "!", "?"})

\* the message holds a greeting word or phrase as a whole word
GreetsInWords(message) ==
    LET normalized_message == Strip(Lower(message))
    IN  \/ \E n \in 1..Len(greetings) : ContainsWord(greetings[n], normalized_message)
        \/ ContainsWord(can_you_hear_me, normalized_message)

\* C40: a query is answered with the canned greeting only if its message
\* holds a greeting as a whole word; a query of a session whose message
\* holds none, and names an interest, goes through retrieval and has the
\* interest recorded in the profile of its session.
C40_GreetingOnlyForWholeWords ==
    \A i \in QueryIds :
        Emitted(i)
        => /\ qs[i].path = "greeting" => GreetsInWords(qs[i].message)
           /\ (/\ ~GreetsInWords(qs[i].message)
               /\ ContainsAny(interest_words, Lower(qs[i].message))
               /\ qs[i].session_id # None)
              => /\ Did(i, "retrieve")
                 /\ qs[i].session_id \in DOMAIN user_profiles
                 /\ "interests" \in DOMAIN user_profiles[qs[i].session_id]
====
